---- MODULE Spec2Model ----
(***************************************************************************)
(* csv2bufr: template driven mapping of CSV rows to BUFR messages.         *)
(* Model of csv2bufr/__init__.py: the value expression resolver            *)
(* (parse_value, index_, get_), apply_scaling, validate_value, the         *)
(* BUFRMessage registry (reset, set_element, get_element, parse, as_bufr,  *)
(* md5, get_datetime) and the transform generator.                         *)
(*                                                                         *)
(* Representation of Python values:                                        *)
(*   None            [t |-> "none"]                                        *)
(*   int             [t |-> "int",   num |-> n, den |-> 1]                 *)
(*   float           [t |-> "float", num |-> n, den |-> d]  (n/d, exact;   *)
(*                   den = 0 stands for float('+inf') / float('-inf'))     *)
(*   str             [t |-> "str",  s |-> "..."]                           *)
(*   list            [t |-> "list", l |-> <<...>>]                         *)
(* A template expression string "kind:payload" is kept as the tuple of     *)
(* its ':' separated tokens, i.e. as the result of element.split(":").     *)
(***************************************************************************)
EXTENDS Integers, Sequences, FiniteSets, TLC

\* ------------------------------------------------------------------------
\* Bounds of the model
\* ------------------------------------------------------------------------
MaxRows == 2

\* the codec fails in at most so many pulls of one transform
MaxCodecFailures == 1

\* the calls made on one BUFRMessage by its user
MaxOps == 3

\* the elements of the sequence of a mapping dictionary
MaxElements == 2

\* ------------------------------------------------------------------------
\* Python values
\* ------------------------------------------------------------------------
None == [t |-> "none"]

Abs(n) == IF n < 0 THEN -n ELSE n

RECURSIVE GCD(_, _)
GCD(a, b) == IF b = 0 THEN a ELSE GCD(b, a % b)

PyInt(n) == [t |-> "int", num |-> n, den |-> 1]

\* a float holding the rational n/d, d > 0, in lowest terms
PyFloat(n, d) ==
    LET g == GCD(Abs(n), d)
    IN  IF n = 0 THEN [t |-> "float", num |-> 0, den |-> 1]
        ELSE [t |-> "float", num |-> n \div g, den |-> d \div g]

PosInf == [t |-> "float", num |-> 1, den |-> 0]
NegInf == [t |-> "float", num |-> -1, den |-> 0]

PyStr(s) == [t |-> "str", s |-> s]
PyList(l) == [t |-> "list", l |-> l]

IsNone(v) == v.t = "none"
\* isinstance(value, NUMBERS), NUMBERS = (float, int, complex)
IsNumber(v) == v.t \in {"int", "float"}
IsInf(v) == v.t = "float" /\ v.den = 0

\* Python's < on two numbers
NumLt(a, b) ==
    IF IsInf(a) \/ IsInf(b)
    THEN IF IsInf(a) /\ IsInf(b) THEN a.num < b.num
         ELSE IF IsInf(a) THEN a.num < 0
         ELSE b.num > 0
    ELSE a.num * b.den < b.num * a.den

NumGt(a, b) == NumLt(b, a)
NumLe(a, b) == ~NumLt(b, a)

RECURSIVE Pow10(_)
Pow10(n) == IF n = 0 THEN 1 ELSE 10 * Pow10(n - 1)

\* pow(10, scale) for an integral scale: an int for an int scale >= 0, a
\* float otherwise
PyPow10(scale) ==
    IF scale.num >= 0
    THEN IF scale.t = "int" THEN PyInt(Pow10(scale.num))
         ELSE PyFloat(Pow10(scale.num), 1)
    ELSE PyFloat(1, Pow10(-scale.num))

\* a * b and a + b on finite numbers: int when both are int, else float
NumMul(a, b) ==
    IF a.t = "int" /\ b.t = "int" THEN PyInt(a.num * b.num)
    ELSE PyFloat(a.num * b.num, a.den * b.den)

NumAdd(a, b) ==
    IF a.t = "int" /\ b.t = "int" THEN PyInt(a.num + b.num)
    ELSE PyFloat(a.num * b.den + b.num * a.den, a.den * b.den)

\* ------------------------------------------------------------------------
\* Conversions of strings.  TLA+ has no character level string operators, so
\* float(s), int(s), '.' in s, s.isascii(), s.split(",") and s.split("-") are
\* tabulated for the strings of the model; every other string is not a
\* numeric literal.
\* ------------------------------------------------------------------------
\* <<s, num, den>>: s is the decimal literal of num/den
NumericLiterals ==
    { <<"0", 0, 1>>, <<"1", 1, 1>>, <<"2", 2, 1>>, <<"4", 4, 1>>,
      <<"5", 5, 1>>, <<"7", 7, 1>>, <<"10", 10, 1>>, <<"12", 12, 1>>,
      <<"38", 38, 1>>, <<"2021", 2021, 1>>, <<"-1", -1, 1>>,
      <<"0.0", 0, 1>>, <<"0.5", 1, 2>>, <<"2.5", 5, 2>>, <<"3.5", 7, 2>>,
      <<"10.0", 10, 1>>, <<"-90.0", -90, 1>>, <<"90.0", 90, 1>>,
      <<"95.0", 95, 1>>, <<"301150", 301150, 1>>, <<"20000", 20000, 1>>,
      <<"12345", 12345, 1>>, <<"5.0", 5, 1>>, <<"7.0", 7, 1>>,
      <<"12.0", 12, 1>>, <<"2021.0", 2021, 1>> }

\* strings that contain the character '.'
DottedStrings ==
    { "0.0", "0.5", "2.5", "3.5", "10.0", "-90.0", "90.0", "95.0", "5.0",
      "7.0", "12.0", "2021.0", "1.x", "1,2.5" }

\* strings with a character outside ASCII
NonAsciiStrings == { "Zuerich-with-u-umlaut" }

HasDot(s) == s \in DottedStrings
isascii(s) == s \notin NonAsciiStrings
IsNumericLiteral(s) == \E e \in NumericLiterals : e[1] = s
LiteralOf(s) == CHOOSE e \in NumericLiterals : e[1] = s

Ok(v) == [exc |-> "none", val |-> v]
Raise(e) == [exc |-> e, val |-> None]

\* float(x) for a Python value x
float(x) ==
    CASE x.t = "float" -> Ok(x)
      [] x.t = "int" -> Ok(PyFloat(x.num, 1))
      [] x.t = "str" ->
            IF IsNumericLiteral(x.s)
            THEN Ok(PyFloat(LiteralOf(x.s)[2], LiteralOf(x.s)[3]))
            ELSE Raise("ValueError")
      [] OTHER -> Raise("TypeError")

\* int(n/d) of a finite float: truncation towards zero
Trunc(n, d) == IF n >= 0 THEN n \div d ELSE -((-n) \div d)

\* round(n/d) of a finite float: nearest integer, ties to the even one
Round(n, d) ==
    LET q == n \div d
        r == n - q * d
    IN  IF 2 * r < d THEN q
        ELSE IF 2 * r > d THEN q + 1
        ELSE IF q % 2 = 0 THEN q ELSE q + 1

\* int(s) for a string s: only literals without fraction and exponent
intOfStr(s) ==
    IF IsNumericLiteral(s) /\ ~HasDot(s)
    THEN Ok(PyInt(LiteralOf(s)[2]))
    ELSE Raise("ValueError")

\* s.split(",") followed by strip() of every word, for array payloads
Words(s) ==
    CASE s = "301150" -> <<"301150">>
      [] s = "1, 2" -> <<"1", "2">>
      [] s = "1,2.5" -> <<"1", "2.5">>
      [] s = "1,x" -> <<"1", "x">>
      [] OTHER -> <<s>>

\* s.split("-") for station identifiers
SplitDash(s) ==
    CASE s = "0-20000-0-12345" -> <<"0", "20000", "0", "12345">>
      [] s = "0-20000-12345" -> <<"0", "20000", "12345">>
      [] s = "-1" -> <<"", "1">>
      [] s = "-90.0" -> <<"", "90.0">>
      [] s = "Zuerich-with-u-umlaut" -> <<"Zuerich", "with", "u", "umlaut">>
      [] OTHER -> <<s>>

\* ------------------------------------------------------------------------
\* module constants of csv2bufr/__init__.py
\* ------------------------------------------------------------------------
MISSING == { PyStr("NA"), PyStr("NaN"), PyStr("NAN"), PyStr("None"),
             PyStr(""), None }

HEADERS == { "edition", "masterTableNumber", "bufrHeaderCentre",
             "bufrHeaderSubCentre", "updateSequenceNumber", "dataCategory",
             "internationalDataSubCategory", "dataSubCategory",
             "masterTablesVersionNumber", "localTablesVersionNumber",
             "typicalYear", "typicalMonth", "typicalDay", "typicalHour",
             "typicalMinute", "typicalSecond", "typicalDate", "typicalTime",
             "numberOfSubsets", "observedData", "compressedData",
             "unexpandedDescriptors", "subsetNumber" }

\* SUCCESS = True (the same value as _SUCCESS_ of csv2bufr.templates)
SUCCESS == TRUE
FAILED == 0
PASSED == 1

\* ------------------------------------------------------------------------
\* _warnings_global: dict from "t-<thread ident>" to the list of warnings.
\* dict[k].append(msg) raises KeyError when k is not a key.
\* ------------------------------------------------------------------------
EmptyDict == [k \in {} |-> <<>>]

HasKey(wg, tidx) == tidx \in DOMAIN wg

SetKey(wg, tidx, v) ==
    [k \in DOMAIN wg \cup {tidx} |-> IF k = tidx THEN v ELSE wg[k]]

AppendWarning(wg, tidx, msg) == SetKey(wg, tidx, Append(wg[tidx], msg))

\* ------------------------------------------------------------------------
\* Functions of the module.  Each returns [exc, val, wg]: the exception it
\* raises ("none" when it returns), the returned value and the value of
\* _warnings_global it leaves behind.  nullify is NULLIFY_INVALID and tidx the
\* key f"t-{threading.get_ident()}" of the calling thread.
\* ------------------------------------------------------------------------
\* the element of a set of one element: The({ e : x \in {v} }) is e with x
\* bound to the value v
The(S) == CHOOSE v \in S : TRUE

Ret(v, wg) == [exc |-> "none", val |-> v, wg |-> wg]
Exc(e, wg) == [exc |-> e, val |-> None, wg |-> wg]

\* _warnings_global[tidx].append(msg), then continue with r
\* (KeyError when the calling thread has no slot)
Warn(wg, tidx, msg) ==
    IF HasKey(wg, tidx) THEN Ret(None, AppendWarning(wg, tidx, msg))
    ELSE Exc("KeyError", wg)

\* index_(key, mapping): position (from 1) of the first item of mapping with
\* this eccodes_key; val is None when there is none and nullify holds
FirstIndex(key, mapping) ==
    IF \E i \in 1..Len(mapping) : mapping[i].eccodes_key = key
    THEN CHOOSE i \in 1..Len(mapping) :
            /\ mapping[i].eccodes_key = key
            /\ \A j \in 1..(i - 1) : mapping[j].eccodes_key # key
    ELSE 0

index_(key, mapping, nullify, wg, tidx) ==
    The({ IF idx # 0 THEN Ret(PyInt(idx), wg)
          ELSE IF nullify
          THEN The({ IF w.exc # "none" THEN w ELSE Ret(None, w.wg) :
                     w \in {Warn(wg, tidx, <<"index_", key>>)} })
          ELSE Exc("ValueError", wg) :
          idx \in {FirstIndex(key, mapping)} })

RECURSIVE MapWords(_, _)
RECURSIVE MapWords_per_word(_, _)

\* MapWords that takes each word as a float when that word has a '.'
MapWords_per_word(words, asFloat) ==
    IF words = <<>> THEN Ok(<<>>)
    ELSE The({ IF h.exc # "none" THEN Raise(h.exc)
               ELSE The({ IF r.exc # "none" THEN r
                          ELSE Ok(<<h.val>> \o r.val) :
                          r \in {MapWords_per_word(Tail(words), asFloat)} }) :
               h \in {IF HasDot(Head(words))
                      THEN float(PyStr(Head(words)))
                      ELSE intOfStr(Head(words))} })

\* list(map(lambda x: func(x.strip()), words)) of parse_value
MapWords(words, asFloat) ==
    IF words = <<>> THEN Ok(<<>>)
    ELSE The({ IF h.exc # "none" THEN Raise(h.exc)
               ELSE The({ IF r.exc # "none" THEN r
                          ELSE Ok(<<h.val>> \o r.val) :
                          r \in {MapWords(Tail(words), asFloat)} }) :
               h \in {IF asFloat THEN float(PyStr(Head(words)))
                      ELSE intOfStr(Head(words))} })

\* parse_value that returns None for an absent column without a warning
parse_value_silent(element, data, nullify, wg, tidx) ==
    The({
    CASE data_type[1] = "const" ->
            IF Len(data_type) < 2 THEN Exc("IndexError", wg)
            ELSE The({ IF r.exc # "none" THEN Exc(r.exc, wg)
                       ELSE Ret(r.val, wg) :
                       r \in {IF HasDot(data_type[2])
                              THEN float(PyStr(data_type[2]))
                              ELSE intOfStr(data_type[2])} })
      [] data_type[1] = "data" ->
            IF Len(data_type) < 2 THEN Exc("IndexError", wg)
            ELSE The({ IF data.isNone THEN Exc("TypeError", wg)
                       ELSE IF column \notin DOMAIN data.cols
                       THEN IF nullify THEN Ret(None, wg)
                            ELSE Exc("ValueError", wg)
                       ELSE Ret(data.cols[column], wg) :
                       column \in {data_type[2]} })
      [] data_type[1] = "array" ->
            IF Len(data_type) < 2 THEN Exc("IndexError", wg)
            ELSE The({ IF r.exc # "none" THEN Exc(r.exc, wg)
                       ELSE Ret(PyList(r.val), wg) :
                       r \in {MapWords(Words(data_type[2]),
                                       HasDot(data_type[2]))} })
      [] data_type[1] = "" -> Ret(None, wg)
      [] OTHER -> Exc("ValueError", wg) :
    data_type \in {element} })

\* parse_value(element, data).  element is element.split(":"); data is
\* [isNone, cols]: isNone for data=None, else cols maps column to value
parse_value(element, data, nullify, wg, tidx) ==
    The({
    CASE data_type[1] = "const" ->
            IF Len(data_type) < 2 THEN Exc("IndexError", wg)
            ELSE The({ IF r.exc # "none" THEN Exc(r.exc, wg)
                       ELSE Ret(r.val, wg) :
                       r \in {IF HasDot(data_type[2])
                              THEN float(PyStr(data_type[2]))
                              ELSE intOfStr(data_type[2])} })
      [] data_type[1] = "data" ->
            IF Len(data_type) < 2 THEN Exc("IndexError", wg)
            ELSE The({ IF data.isNone THEN Exc("TypeError", wg)
                       ELSE IF column \notin DOMAIN data.cols
                       THEN IF nullify
                            THEN The({ IF w.exc # "none" THEN w
                                       \* value = data[column]
                                       ELSE Exc("KeyError", w.wg) :
                                       w \in {Warn(wg, tidx,
                                                   <<"column", column>>)} })
                            ELSE Exc("ValueError", wg)
                       ELSE Ret(data.cols[column], wg) :
                       column \in {data_type[2]} })
      [] data_type[1] = "array" ->
            IF Len(data_type) < 2 THEN Exc("IndexError", wg)
            ELSE The({ IF r.exc # "none" THEN Exc(r.exc, wg)
                       ELSE Ret(PyList(r.val), wg) :
                       r \in {MapWords(Words(data_type[2]),
                                       HasDot(data_type[2]))} })
      [] data_type[1] = "" -> Ret(None, wg)
      [] OTHER -> Exc("ValueError", wg) :
    data_type \in {element} })

\* get_ that raises KeyError whatever the policy
get__always_raise(key, mapping, data, nullify, wg, tidx) ==
    The({ IF body.exc = "none" THEN body
          ELSE Exc("KeyError", body.wg) :
          body \in
            { IF i.exc # "none" THEN i
              ELSE IF IsNone(i.val) THEN Exc("TypeError", i.wg)
              ELSE IF "value" \notin DOMAIN mapping[i.val.num]
                   THEN Exc("KeyError", i.wg)
              ELSE parse_value(mapping[i.val.num].value, data, nullify,
                               i.wg, tidx) :
              i \in {index_(key, mapping, nullify, wg, tidx)} } })

\* get_(key, mapping, data)
get_(key, mapping, data, nullify, wg, tidx) ==
    The({ IF body.exc = "none" THEN body
          ELSE IF nullify
          THEN The({ IF w.exc # "none" THEN w ELSE Ret(None, w.wg) :
                     w \in {Warn(body.wg, tidx, <<"get_", key>>)} })
          ELSE Exc("KeyError", body.wg) :
          \* the try block: index_, mapping[idx], parse_value(element['value'])
          body \in
            { IF i.exc # "none" THEN i
              ELSE IF IsNone(i.val) THEN Exc("TypeError", i.wg)
              ELSE IF "value" \notin DOMAIN mapping[i.val.num]
                   THEN Exc("KeyError", i.wg)
              ELSE parse_value(mapping[i.val.num].value, data, nullify,
                               i.wg, tidx) :
              i \in {index_(key, mapping, nullify, wg, tidx)} } })

\* apply_scaling with the offset added before the scaling
apply_scaling_offset_first(value, scale, offset) ==
    IF IsNumber(value)
    THEN IF ~IsNone(scale) /\ ~IsNone(offset)
         THEN IF ~IsNumber(scale) \/ ~IsNumber(offset)
              THEN Raise("RuntimeError")
              ELSE Ok(NumMul(NumAdd(value, offset), PyPow10(scale)))
         ELSE Ok(value)
    ELSE Ok(value)

\* apply_scaling(value, scale, offset): touches no warnings
apply_scaling(value, scale, offset) ==
    IF IsNumber(value)
    THEN IF ~IsNone(scale) /\ ~IsNone(offset)
         THEN IF ~IsNumber(scale) \/ ~IsNumber(offset)
              THEN Raise("RuntimeError")
              ELSE Ok(NumAdd(NumMul(value, PyPow10(scale)), offset))
         ELSE Ok(value)
    ELSE Ok(value)

\* validate_value with bounds that are exclusive
validate_value_exclusive(key, value, valid_min, valid_max, nullify_on_fail, wg, tidx) ==
    IF IsNone(value) THEN Ret(value, wg)
    ELSE IF ~IsNumber(value) THEN Ret(value, wg)
    ELSE IF ~IsNone(valid_min) /\ ~IsNone(valid_max)
    THEN IF ~IsNumber(valid_min) \/ ~IsNumber(valid_max)
         THEN Exc("TypeError", wg)
         ELSE IF ~NumLt(value, valid_max) \/ ~NumGt(value, valid_min)
         THEN IF nullify_on_fail
              THEN LET w == Warn(wg, tidx, <<"range", key>>)
                   IN  IF w.exc # "none" THEN w ELSE Ret(None, w.wg)
              ELSE Exc("ValueError", wg)
         ELSE Ret(value, wg)
    ELSE Ret(value, wg)

\* validate_value(key, value, valid_min, valid_max, nullify_on_fail)
validate_value(key, value, valid_min, valid_max, nullify_on_fail, wg, tidx) ==
    IF IsNone(value) THEN Ret(value, wg)
    ELSE IF ~IsNumber(value) THEN Ret(value, wg)
    ELSE IF ~IsNone(valid_min) /\ ~IsNone(valid_max)
    THEN IF ~IsNumber(valid_min) \/ ~IsNumber(valid_max)
         THEN Exc("TypeError", wg)
         ELSE IF NumGt(value, valid_max) \/ NumLt(value, valid_min)
         THEN IF nullify_on_fail
              THEN LET w == Warn(wg, tidx, <<"range", key>>)
                   IN  IF w.exc # "none" THEN w ELSE Ret(None, w.wg)
              ELSE Exc("ValueError", wg)
         ELSE Ret(value, wg)
    ELSE Ret(value, wg)

\* ------------------------------------------------------------------------
\* class BUFRMessage.  A message is [dict, bufr, hash, warnings]; dict maps
\* every key the codec enumerated to its entry: value, type and, for keys
\* outside HEADERS, the attributes code, units, scale, reference, width.
\* ------------------------------------------------------------------------
ATTRIBUTES == <<"code", "units", "scale", "reference", "width">>

\* keys and native types the codec enumerates for the descriptors of the model
NativeType ==
    [k \in { "unexpandedDescriptors", "masterTablesVersionNumber",
             "bufrHeaderCentre", "dataCategory",
             "typicalYear", "typicalMonth", "typicalDay", "typicalHour",
             "typicalMinute",
             "#1#wigosIdentifierSeries", "#1#wigosIssuerOfIdentifier",
             "#1#wigosIssueNumber", "#1#wigosLocalIdentifierCharacter",
             "#1#longitude", "#1#latitude", "#1#airTemperature",
             "#1#stationNumber", "#1#stationOrSiteName" } |->
        CASE k \in { "#1#longitude", "#1#latitude", "#1#airTemperature" }
                -> "float"
          [] k \in { "#1#stationOrSiteName",
                     "#1#wigosLocalIdentifierCharacter" } -> "str"
          [] OTHER -> "int"]

\* codes_get(bufr_msg, f"{key}->{attr}")
CodecAttribute(key, attr) ==
    CASE attr = "units" ->
            PyStr(IF key = "#1#airTemperature" THEN "K"
                  ELSE IF key \in {"#1#longitude", "#1#latitude"} THEN "deg"
                  ELSE IF key = "#1#stationOrSiteName" THEN "CCITT IA5"
                  ELSE "Numeric")
      [] attr = "scale" ->
            PyInt(IF key = "#1#airTemperature" THEN 2
                  ELSE IF key \in {"#1#longitude", "#1#latitude"} THEN 5
                  ELSE 0)
      [] attr = "reference" ->
            PyInt(IF key = "#1#longitude" THEN -18000000
                  ELSE IF key = "#1#latitude" THEN -9000000 ELSE 0)
      [] attr = "width" ->
            PyInt(IF key = "#1#airTemperature" THEN 16
                  ELSE IF key = "#1#longitude" THEN 26
                  ELSE IF key = "#1#latitude" THEN 25
                  ELSE IF key = "#1#stationOrSiteName" THEN 160 ELSE 10)
      [] OTHER ->
            PyInt(IF key = "#1#airTemperature" THEN 12101
                  ELSE IF key = "#1#longitude" THEN 6001
                  ELSE IF key = "#1#latitude" THEN 5001
                  ELSE IF key = "#1#stationOrSiteName" THEN 1015 ELSE 1002)

\* the entry __init__ creates for key
NewEntry(key) ==
    IF key \in HEADERS
    THEN [value |-> None, type |-> PyStr(NativeType[key])]
    ELSE [value |-> None, type |-> PyStr(NativeType[key]),
          code |-> CodecAttribute(key, "code"),
          units |-> CodecAttribute(key, "units"),
          scale |-> CodecAttribute(key, "scale"),
          reference |-> CodecAttribute(key, "reference"),
          width |-> CodecAttribute(key, "width")]

\* BUFRMessage.__init__ (the codec calls succeed)
NewMessage ==
    [dict |-> [k \in DOMAIN NativeType |-> NewEntry(k)],
     bufr |-> None, hash |-> None, warnings |-> <<>>]

\* the message of a template with an associated field (the daily climate
\* template of pygeoapi_daycli_plugin.py): the codec enumerates the key
\* "#1#airTemperature->associatedField" as well
DayCliMessage ==
    [NewMessage EXCEPT !.dict =
        [k \in DOMAIN @ \cup {"#1#airTemperature->associatedField"} |->
            IF k \in DOMAIN @ THEN @[k]
            ELSE [value |-> None, type |-> PyStr("int"),
                  code |-> CodecAttribute(k, "code"),
                  units |-> CodecAttribute(k, "units"),
                  scale |-> CodecAttribute(k, "scale"),
                  reference |-> CodecAttribute(k, "reference"),
                  width |-> CodecAttribute(k, "width")]]]

SetValue(msg, key, value) ==
    [msg EXCEPT !.dict = [@ EXCEPT ![key] = [@ EXCEPT !.value = value]]]

\* reset that keeps the warnings of the message
reset_keep_warnings(msg) ==
    [msg EXCEPT !.dict = [k \in DOMAIN @ |-> [@[k] EXCEPT !.value = None]],
                !.bufr = None]

\* BUFRMessage.reset
reset(msg) ==
    [msg EXCEPT !.dict = [k \in DOMAIN @ |-> [@[k] EXCEPT !.value = None]],
                !.bufr = None,
                !.warnings = <<>>]

MRet(v, msg) == [exc |-> "none", val |-> v, msg |-> msg]
MExc(e, msg) == [exc |-> e, val |-> None, msg |-> msg]

\* the conversion of set_element: [exc, val, warn], warn the warning appended
\* to self.warnings (<<>> for none)
Coerce(key, value, expected_type, nullify) ==
    LET keep == [exc |-> "none", val |-> value, warn |-> <<>>]
        fail(kind) == IF nullify
                      THEN [exc |-> "none", val |-> None,
                            warn |-> <<<<kind, key>>>>]
                      ELSE [exc |-> "RuntimeError", val |-> None,
                            warn |-> <<>>]
    IN
    IF expected_type = PyStr("int") /\ value.t # "int"
    THEN IF value.t = "float"
         THEN IF IsInf(value)
              THEN [exc |-> "OverflowError", val |-> None, warn |-> <<>>]
              ELSE [keep EXCEPT !.val = PyInt(Round(value.num, value.den))]
         ELSE LET f == float(value)
              IN  IF f.exc # "none" \/ IsInf(f.val) THEN fail("int")
                  ELSE [keep EXCEPT
                          !.val = PyInt(Trunc(f.val.num, f.val.den))]
    ELSE IF expected_type = PyStr("float") /\ value.t # "float"
    THEN LET f == float(value)
         IN  IF f.exc # "none" THEN fail("float")
             ELSE [keep EXCEPT !.val = f.val]
    ELSE keep

\* BUFRMessage.set_element(key, value)
set_element(msg, key, value, nullify) ==
    IF key \notin DOMAIN msg.dict THEN MExc("KeyError", msg)
    ELSE IF ~IsNone(value) /\ value.t # "list"
    THEN The({ The({ IF c.exc # "none" THEN MExc(c.exc, m)
                     ELSE MRet(None, SetValue(m, key, c.val)) :
                     m \in {[msg EXCEPT !.warnings = @ \o c.warn]} }) :
               c \in {Coerce(key, value, msg.dict[key].type, nullify)} })
    ELSE MRet(None, SetValue(msg, key, value))

\* keys that contain "->", as key.split("->")
ArrowTokens(key) ==
    CASE key = "#1#airTemperature->units" -> <<"#1#airTemperature", "units">>
      [] key = "#1#airTemperature->scale" -> <<"#1#airTemperature", "scale">>
      [] key = "typicalYear->units" -> <<"typicalYear", "units">>
      [] key = "#9#airTemperature->units" -> <<"#9#airTemperature", "units">>
      [] key = "#1#airTemperature->associatedField" ->
            <<"#1#airTemperature", "associatedField">>
      [] OTHER -> <<key>>

HasArrow(key) == Len(ArrowTokens(key)) > 1

\* get_element that takes every key for the key of a value
get_element_no_attributes(msg, key, nullify) ==
    IF key \in DOMAIN msg.dict THEN MRet(msg.dict[key].value, msg)
    ELSE IF nullify
    THEN MRet(None, [msg EXCEPT !.warnings =
                          Append(@, <<"get_element", key>>)])
    ELSE MExc("RuntimeError", msg)

\* BUFRMessage.get_element(key)
get_element(msg, key, nullify) ==
    LET tokens == ArrowTokens(key)
        found == IF HasArrow(key)
                 THEN /\ tokens[1] \in DOMAIN msg.dict
                      /\ tokens[2] \in DOMAIN msg.dict[tokens[1]]
                 ELSE key \in DOMAIN msg.dict
    IN  IF found
        THEN MRet(IF HasArrow(key) THEN msg.dict[tokens[1]][tokens[2]]
                  ELSE msg.dict[key].value, msg)
        ELSE IF nullify
             THEN MRet(None, [msg EXCEPT !.warnings =
                                   Append(@, <<"get_element", key>>)])
             ELSE MExc("RuntimeError", msg)

\* hashlib.md5(b).hexdigest()
md5hex(b) == [t |-> "md5", of |-> b]

\* the bytes codes_write produces: a function of the values that were set
Encode(msg) ==
    [t |-> "bytes", b |-> [k \in DOMAIN msg.dict |-> msg.dict[k].value]]

\* outcomes of the codec calls of one as_bufr
CodecOutcomes == {"ok", "set_error", "pack_internal_error", "pack_error",
                  "write_error"}

\* as_bufr that raises RuntimeError for every failure of the pack step
as_bufr_pack_raises(msg, use_cached, codec) ==
    LET Handles(r, obtained, released) ==
            [exc |-> r.exc, val |-> r.val, msg |-> r.msg,
             obtained |-> obtained, released |-> released]
    IN
    IF use_cached /\ ~IsNone(msg.bufr) THEN Handles(MRet(msg.bufr, msg), 0, 0)
    ELSE IF codec = "set_error"
            /\ \E k \in DOMAIN msg.dict : ~IsNone(msg.dict[k].value)
    THEN Handles(MExc("RuntimeError", msg), 1, 0)
    ELSE IF codec \in {"pack_internal_error", "pack_error", "write_error"}
    THEN Handles(MExc("RuntimeError", msg), 1, 0)
    ELSE The({ Handles(MRet(bytes, [msg EXCEPT !.bufr = bytes,
                                              !.hash = md5hex(bytes)]),
                       1, 1) :
               bytes \in {Encode(msg)} })

\* BUFRMessage.as_bufr(use_cached); codec is what the codec does this time.
\* obtained counts the calls of codes_bufr_new_from_samples and released
\* the calls of codes_release the method has made when it is left
as_bufr(msg, use_cached, codec) ==
    LET Handles(r, obtained, released) ==
            [exc |-> r.exc, val |-> r.val, msg |-> r.msg,
             obtained |-> obtained, released |-> released]
    IN
    IF use_cached /\ ~IsNone(msg.bufr) THEN Handles(MRet(msg.bufr, msg), 0, 0)
    \* lines 527-541: a codes_set or codes_set_array that fails
    ELSE IF codec = "set_error"
            /\ \E k \in DOMAIN msg.dict : ~IsNone(msg.dict[k].value)
    THEN Handles(MExc("RuntimeError", msg), 1, 0)
    \* lines 547-552
    ELSE IF codec = "pack_internal_error"
    THEN The({ Handles(MRet(m.bufr, m), 1, 1) :
               m \in {[msg EXCEPT !.warnings = Append(@, <<"pack", "pack">>)]}
            })
    \* lines 553-557
    ELSE IF codec = "pack_error" THEN Handles(MExc("RuntimeError", msg), 1, 0)
    \* lines 561-569: codes_write fails before codes_release is reached
    ELSE IF codec = "write_error" THEN Handles(MExc("RuntimeError", msg), 1, 0)
    ELSE The({ Handles(MRet(bytes, [msg EXCEPT !.bufr = bytes,
                                              !.hash = md5hex(bytes)]),
                       1, 1) :
               bytes \in {Encode(msg)} })

\* BUFRMessage.md5
md5(msg) == msg.hash

\* ------------------------------------------------------------------------
\* BUFRMessage.parse.  The state threaded through the loop is
\* [exc, msg, wg]: the exception that ended parse ("none" while it runs),
\* the message and _warnings_global.
\* ------------------------------------------------------------------------
PSt(e, msg, wg) == [exc |-> e, msg |-> msg, wg |-> wg]

\* parse_value(element[field], data) when the field is present, else None
OptionalValue(element, field, data, nullify, wg, tidx) ==
    IF field \in DOMAIN element
    THEN parse_value(element[field], data, nullify, wg, tidx)
    ELSE Ret(None, wg)

\* lines 626-647: valid_min, valid_max, validate_value and its handler;
\* returns [exc, val, msg, wg]
ValidateStep(msg, element, value, data, nullify, wg, tidx) ==
    The({
      IF lo.exc # "none"
      THEN [exc |-> lo.exc, val |-> None, msg |-> msg, wg |-> lo.wg]
      ELSE The({
        IF hi.exc # "none"
        THEN [exc |-> hi.exc, val |-> None, msg |-> msg, wg |-> hi.wg]
        ELSE The({
          IF v.exc = "none"
          THEN [exc |-> "none", val |-> v.val, msg |-> msg, wg |-> v.wg]
          ELSE IF nullify
          THEN [exc |-> "none", val |-> None,
                msg |-> [msg EXCEPT !.warnings =
                            Append(@, <<"validate", element.eccodes_key>>)],
                wg |-> v.wg]
          ELSE [exc |-> v.exc, val |-> None, msg |-> msg, wg |-> v.wg] :
          v \in {validate_value(element.eccodes_key, value, lo.val, hi.val,
                                nullify, hi.wg, tidx)} }) :
        hi \in {OptionalValue(element, "valid_max", data, nullify, lo.wg,
                              tidx)} }) :
      lo \in {OptionalValue(element, "valid_min", data, nullify, wg, tidx)} })

\* lines 652-667: scale, offset and apply_scaling; returns [exc, val, wg]
ScaleStep(element, value, data, nullify, wg, tidx) ==
    IF value \in MISSING THEN Ret(None, wg)
    ELSE The({
      IF sc.exc # "none" THEN Exc("RuntimeError", sc.wg)
      ELSE The({
        IF of.exc # "none" THEN Exc("RuntimeError", of.wg)
        ELSE The({ IF r.exc # "none" THEN Exc("RuntimeError", of.wg)
                   ELSE Ret(r.val, of.wg) :
                   r \in {apply_scaling(value, sc.val, of.val)} }) :
        of \in {OptionalValue(element, "offset", data, nullify, sc.wg,
                              tidx)} }) :
      sc \in {OptionalValue(element, "scale", data, nullify, wg, tidx)} })

\* ResolveStep without the test for MISSING
ResolveStep_no_missing(msg, element, mapping, data, nullify, wg, tidx) ==
    The({ IF g.exc # "none" THEN g
          ELSE IF element.eccodes_key \notin DOMAIN msg.dict
          THEN Exc("KeyError", g.wg)
          ELSE IF msg.dict[element.eccodes_key].type
                      \in {PyStr("float"), PyStr("int")}
                  /\ element.eccodes_key \notin HEADERS
          THEN The({ IF f.exc # "none" THEN Exc("RuntimeError", g.wg)
                     ELSE Ret(f.val, g.wg) :
                     f \in {float(g.val)} })
          ELSE g :
          g \in {get_(element.eccodes_key, mapping, data, nullify, wg,
                      tidx)} })

\* lines 612-625: get_, the MISSING test and the conversion to float
ResolveStep(msg, element, mapping, data, nullify, wg, tidx) ==
    The({ IF g.exc # "none" THEN g
          ELSE IF g.val \in MISSING THEN Ret(None, g.wg)
          ELSE IF element.eccodes_key \notin DOMAIN msg.dict
          THEN Exc("KeyError", g.wg)
          ELSE IF msg.dict[element.eccodes_key].type
                      \in {PyStr("float"), PyStr("int")}
                  /\ element.eccodes_key \notin HEADERS
          THEN The({ IF f.exc # "none" THEN Exc("RuntimeError", g.wg)
                     ELSE Ret(f.val, g.wg) :
                     f \in {float(g.val)} })
          ELSE g :
          g \in {get_(element.eccodes_key, mapping, data, nullify, wg,
                      tidx)} })

\* ParseElement with the scaling applied before the validation
ParseElement_scale_first(st, element, mapping, data, nullify, tidx) ==
    The({
      IF r.exc # "none" THEN PSt(r.exc, st.msg, r.wg)
      ELSE The({
        IF s.exc # "none" THEN PSt(s.exc, st.msg, s.wg)
        ELSE The({
          IF v.exc # "none" THEN PSt(v.exc, v.msg, v.wg)
          ELSE The({ PSt(e.exc, e.msg, v.wg) :
                     e \in {set_element(v.msg, element.eccodes_key, v.val,
                                        nullify)} }) :
          v \in {ValidateStep(st.msg, element, s.val, data, nullify, s.wg,
                              tidx)} }) :
        s \in {ScaleStep(element, r.val, data, nullify, r.wg, tidx)} }) :
      r \in {ResolveStep(st.msg, element, mapping, data, nullify, st.wg,
                         tidx)} })

\* one iteration of the inner loop of parse (lines 608-673)
ParseElement(st, element, mapping, data, nullify, tidx) ==
    The({
      IF r.exc # "none" THEN PSt(r.exc, st.msg, r.wg)
      ELSE The({
        IF v.exc # "none" THEN PSt(v.exc, v.msg, v.wg)
        ELSE The({
          IF s.exc # "none" THEN PSt(s.exc, v.msg, s.wg)
          ELSE The({ PSt(e.exc, e.msg, s.wg) :
                     e \in {set_element(v.msg, element.eccodes_key, s.val,
                                        nullify)} }) :
          s \in {ScaleStep(element, v.val, data, nullify, v.wg, tidx)} }) :
        v \in {ValidateStep(st.msg, element, r.val, data, nullify, r.wg,
                            tidx)} }) :
      r \in {ResolveStep(st.msg, element, mapping, data, nullify, st.wg,
                         tidx)} })

\* for element in mappings[section], from element i on
RECURSIVE ParseSection(_, _, _, _, _, _)
ParseSection(st, mapping, i, data, nullify, tidx) ==
    IF st.exc # "none" \/ i > Len(mapping) THEN st
    ELSE ParseSection(ParseElement(st, mapping[i], mapping, data, nullify,
                                   tidx),
                      mapping, i + 1, data, nullify, tidx)

\* BUFRMessage.parse(data, mappings)
parse(msg, data, mappings, nullify, wg, tidx) ==
    ParseSection(ParseSection(PSt("none", msg, wg), mappings.header, 1, data,
                              nullify, tidx),
                 mappings.data, 1, data, nullify, tidx)

\* ------------------------------------------------------------------------
\* BUFRMessage.get_datetime
\* ------------------------------------------------------------------------
IsLeap(y) == (y % 4 = 0 /\ y % 100 # 0) \/ y % 400 = 0

DaysInMonth(y, m) ==
    IF m = 2 THEN (IF IsLeap(y) THEN 29 ELSE 28)
    ELSE IF m \in {4, 6, 9, 11} THEN 30 ELSE 31

\* datetime(y, m, d, h, mi) accepts these arguments
ValidDatetime(y, m, d, h, mi) ==
    /\ y \in 1..9999 /\ m \in 1..12 /\ d \in 1..DaysInMonth(y, m)
    /\ h \in 0..23 /\ mi \in 0..59

TypicalKeys == <<"typicalYear", "typicalMonth", "typicalDay", "typicalHour",
                 "typicalMinute">>

\* get_element on the five keys in turn: [exc, vals, msg]
RECURSIVE GetAll(_, _, _, _)
GetAll(msg, keys, i, nullify) ==
    IF i > Len(keys) THEN [exc |-> "none", vals |-> <<>>, msg |-> msg]
    ELSE The({ IF g.exc # "none"
               THEN [exc |-> g.exc, vals |-> <<>>, msg |-> g.msg]
               ELSE The({ [r EXCEPT !.vals = <<g.val>> \o @] :
                          r \in {GetAll(g.msg, keys, i + 1, nullify)} }) :
               g \in {get_element(msg, keys[i], nullify)} })

\* get_datetime that keeps the date and drops the time of day
get_datetime_date_only(msg, nullify) ==
    The({ IF a.exc # "none" THEN MExc(a.exc, a.msg)
          ELSE IF \E i \in 1..5 : IsNone(a.vals[i])
          THEN MExc("RuntimeError", a.msg)
          ELSE MRet([t |-> "datetime",
                     d |-> <<a.vals[1].num, a.vals[2].num, a.vals[3].num,
                             0, 0>>], a.msg) :
          a \in {GetAll(msg, TypicalKeys, 1, nullify)} })

\* the datetime is kept as <<year, month, day, hour, minute>>
get_datetime(msg, nullify) ==
    The({ IF a.exc # "none" THEN MExc(a.exc, a.msg)
          ELSE IF \E i \in 1..5 : IsNone(a.vals[i])
          THEN MExc("RuntimeError", a.msg)
          ELSE \* the second round of get_element calls, for datetime(...)
               The({ The({ IF \E i \in 1..5 : v[i].t # "int"
                           THEN MExc("TypeError", b.msg)
                           ELSE IF ~ValidDatetime(v[1].num, v[2].num,
                                                  v[3].num, v[4].num,
                                                  v[5].num)
                           THEN MExc("ValueError", b.msg)
                           ELSE MRet([t |-> "datetime",
                                      d |-> <<v[1].num, v[2].num, v[3].num,
                                              v[4].num, v[5].num>>], b.msg) :
                           v \in {b.vals} }) :
                     b \in {GetAll(a.msg, TypicalKeys, 1, nullify)} }) :
          a \in {GetAll(msg, TypicalKeys, 1, nullify)} })

\* ------------------------------------------------------------------------
\* transform(data, mappings): the generator.
\* ------------------------------------------------------------------------
\* validate_template that accepts every template
validate_template_accept_all(mappings) == Ok(SUCCESS)

\* c2bt.validate_template(mappings): jsonschema's verdict on the template is
\* carried by the template as mappings.conforms
validate_template(mappings) ==
    IF mappings.conforms THEN Ok(SUCCESS) ELSE Raise("RuntimeError")

WigosKeys == <<"#1#wigosIdentifierSeries", "#1#wigosIssuerOfIdentifier",
               "#1#wigosIssueNumber", "#1#wigosLocalIdentifierCharacter">>

\* the value of the last item of mappings["data"] with this key, <<>> if none
WigosExpr(mappings, key) ==
    LET idxs == {i \in 1..Len(mappings.data) :
                    mappings.data[i].eccodes_key = key}
    IN  IF idxs = {} THEN <<>>
        ELSE mappings.data[CHOOSE i \in idxs : \A j \in idxs : j <= i].value

\* lines 752-784: how the station identifier is obtained;
\* [exc, kind, value, field]
WsiSource(mappings) ==
    IF "wigos_station_identifier" \in DOMAIN mappings
    THEN LET wsi == mappings.wigos_station_identifier
         IN  IF Len(wsi) # 2
             THEN [exc |-> "ValueError", kind |-> 0, value |-> "",
                   field |-> ""]
             ELSE IF wsi[1] = "const"
             THEN [exc |-> "none", kind |-> 1, value |-> wsi[2],
                   field |-> ""]
             ELSE [exc |-> "none", kind |-> 2, value |-> "",
                   field |-> wsi[2]]
    ELSE IF \E i \in 1..4 : WigosExpr(mappings, WigosKeys[i]) = <<>>
         THEN [exc |-> "ValueError", kind |-> 0, value |-> "", field |-> ""]
         ELSE [exc |-> "none", kind |-> 3, value |-> "", field |-> ""]

NoData == [isNone |-> TRUE, cols |-> EmptyDict]
Data(cols) == [isNone |-> FALSE, cols |-> cols]

\* BUFRMessage(unexpanded_descriptors, ..., table_version) inside transform:
\* the codec rejects descriptors that are not a list and a table version
\* that is not a number
InitMessage(unexpanded_descriptors, table_version) ==
    IF unexpanded_descriptors.t # "list" \/ ~IsNumber(table_version)
    THEN MExc("RuntimeError", NewMessage)
    ELSE MRet(None, NewMessage)

\* lines 740-861, the code before the loop over the rows: [exc, wg, msg].
\* lines is the CSV text as its rows, each row the tuple of its fields.
Prologue(lines, mappings, nullify, wg0, job_id) ==
    LET fail(x, w) == [exc |-> x, wg |-> w, msg |-> NewMessage]
    IN
    The({
      \* line 745: the exception of validate_template leaves transform
      IF e.exc # "none" THEN fail(e.exc, wg1)
      \* lines 746-749: a result other than SUCCESS
      ELSE IF e.val # SUCCESS THEN fail("ValueError", wg1)
      ELSE The({
        IF src.exc # "none" THEN fail(src.exc, wg1)
        ELSE The({
          IF ud.exc # "none" THEN fail(ud.exc, ud.wg)
          ELSE The({
            IF tv.exc # "none" THEN fail(tv.exc, tv.wg)
            ELSE The({
              \* next(reader) on an exhausted reader while skipping header
              \* rows
              IF Len(lines) < mappings.number_header_rows
              THEN fail("RuntimeError", wg2)
              ELSE The({ IF m.exc # "none" THEN fail(m.exc, wg2)
                         ELSE [exc |-> "none", wg |-> wg2, msg |-> m.msg] :
                         m \in {InitMessage(ud.val, tv.val)} }) :
              wg2 \in {IF "delimiter" \in DOMAIN mappings
                          /\ mappings.delimiter \notin {",", ";", "|", "\t"}
                       THEN AppendWarning(tv.wg, job_id, <<"delimiter", "">>)
                       ELSE tv.wg} }) :
            tv \in {get_("masterTablesVersionNumber", mappings.header,
                         NoData, nullify, ud.wg, job_id)} }) :
          ud \in {get_("unexpandedDescriptors", mappings.header, NoData,
                       nullify, wg1, job_id)} }) :
        src \in {WsiSource(mappings)} }) :
      wg1 \in {SetKey(wg0, job_id, <<>>)},
      e \in {validate_template(mappings)} })

\* dict(zip(col_names, row))
Zip(col_names, row) ==
    LET n == IF Len(col_names) < Len(row) THEN Len(col_names) ELSE Len(row)
    IN  [c \in {col_names[i] : i \in 1..n} |->
            row[CHOOSE i \in 1..n :
                    col_names[i] = c /\ \A j \in (i + 1)..n : col_names[j] # c]]

\* AsciiCheck that raises whatever the policy
RECURSIVE AsciiCheck_always_raise(_, _, _, _, _)
AsciiCheck_always_raise(row, i, nullify, wg, job_id) ==
    IF i > Len(row) THEN Ret(None, wg)
    ELSE IF row[i].t = "str" /\ ~isascii(row[i].s)
    THEN Exc("ValueError", wg)
    ELSE AsciiCheck_always_raise(row, i + 1, nullify, wg, job_id)

\* lines 868-879: the check for non ASCII fields; [exc, wg]
RECURSIVE AsciiCheck(_, _, _, _, _)
AsciiCheck(row, i, nullify, wg, job_id) ==
    IF i > Len(row) THEN Ret(None, wg)
    ELSE IF row[i].t = "str" /\ ~isascii(row[i].s)
    THEN IF nullify
         \* continue: goes on with the next val of the row
         THEN AsciiCheck(row, i + 1, nullify,
                         AppendWarning(wg, job_id, <<"nonascii", row[i].s>>),
                         job_id)
         ELSE Exc("ValueError", wg)
    ELSE AsciiCheck(row, i + 1, nullify, wg, job_id)

\* str(v): the literal of a number is looked up in NumericLiterals
StrOf(v) ==
    IF v.t = "str" THEN v.s
    ELSE IF v.t = "none" THEN "None"
    ELSE IF \E e \in NumericLiterals :
                e[2] = v.num /\ e[3] = v.den /\ (HasDot(e[1]) <=> v.t = "float")
    THEN (CHOOSE e \in NumericLiterals :
                e[2] = v.num /\ e[3] = v.den
                /\ (HasDot(e[1]) <=> v.t = "float"))[1]
    ELSE "?"

\* str(v) split on "-", for the f-strings of lines 890-893
DashParts(v) == SplitDash(StrOf(v))

\* the four parse_value calls of lines 890-893: [exc, val, wg], val the
\* "-" separated parts of the identifier
RECURSIVE WsiParts(_, _, _, _, _, _)
WsiParts(mappings, i, data, nullify, wg, tidx) ==
    IF i > 4 THEN Ret(<<>>, wg)
    ELSE The({
      IF p.exc # "none" THEN p
      ELSE The({ IF r.exc # "none" THEN r
                 \* joined with "-" and split on "-" again
                 ELSE Ret(DashParts(p.val) \o r.val, r.wg) :
                 r \in {WsiParts(mappings, i + 1, data, nullify, p.wg,
                                 tidx)} }) :
      p \in {parse_value(WigosExpr(mappings, WigosKeys[i]), data, nullify,
                         wg, tidx)} })

\* lines 883-909: [exc, val, wg]; val is the identifier as its "-" separated
\* parts
BuildWsi(mappings, data_dict, nullify, wg, tidx) ==
    The({
      The({ IF raw.exc # "none" THEN raw
            ELSE IF Len(raw.val) # 4 THEN Exc("ValueError", raw.wg)
            ELSE raw :
            raw \in
              { CASE src.kind = 2 ->
                       IF src.field \notin DOMAIN data_dict
                       THEN Exc("KeyError", wg)
                       ELSE IF data_dict[src.field].t # "str"
                       \* wsi.split("-") on a float: AttributeError
                       THEN Exc("ValueError", wg)
                       ELSE Ret(DashParts(data_dict[src.field]), wg)
                  [] src.kind = 1 -> Ret(DashParts(PyStr(src.value)), wg)
                  [] OTHER ->
                       The({ IF w.exc = "KeyError" THEN w
                             ELSE IF w.exc # "none"
                             THEN Exc("ValueError", w.wg)
                             ELSE w :
                             w \in {WsiParts(mappings, 1, Data(data_dict),
                                             nullify, wg, tidx)} }) } }) :
      src \in {WsiSource(mappings)} })

\* lines 895-899: the four components are added to the row
AddWsi(data_dict, wsi) ==
    LET names == <<"_wsi_series", "_wsi_issuer", "_wsi_issue_number",
                   "_wsi_local">>
    IN  [c \in DOMAIN data_dict \cup {names[i] : i \in 1..4} |->
            IF \E i \in 1..4 : names[i] = c
            THEN PyStr(wsi[CHOOSE i \in 1..4 : names[i] = c])
            ELSE data_dict[c]]

\* the result of lines 952-973
FailedResult(exc, msg, wg, job_id) ==
    [bufr4 |-> None,
     id |-> None,
     coordinates |-> None,
     md5 |-> None,
     wigos_station_identifier |-> None,
     datetime |-> None,
     originating_centre |-> None,
     data_category |-> None,
     code |-> FAILED,
     message |-> "Error encoding row, BUFR set to None",
     errors |-> <<exc>>,
     warnings |-> msg.warnings \o wg[job_id]]

\* lines 913-973, the try block and its handler: [result, msg, wg,
\* parse_exc], parse_exc the exception message.parse raised ("none" if none)
EncodeRow(msg0, data_dict, wsi, mappings, nullify, wg0, job_id, tidx, codec) ==
    The({
      LET failed(x, m) == [result |-> FailedResult(x, m, p.wg, job_id),
                           msg |-> m, wg |-> p.wg, parse_exc |-> p.exc]
      IN
      IF p.exc # "none" THEN failed(p.exc, p.msg)
      ELSE The({
        IF b.exc # "none" THEN failed(b.exc, b.msg)
        ELSE The({
          IF d1.exc # "none" THEN failed(d1.exc, d1.msg)
          ELSE The({
            IF xy.exc # "none" THEN failed(xy.exc, xy.msg)
            ELSE The({
              IF d2.exc # "none" THEN failed(d2.exc, d2.msg)
              ELSE The({
                IF cc.exc # "none" THEN failed(cc.exc, cc.msg)
                ELSE [result |->
                        [bufr4 |-> b.val,
                         id |-> [t |-> "id", wsi |-> wsi,
                                 isodate |-> d1.val.d \o <<0>>],
                         coordinates |-> PyList(xy.vals),
                         md5 |-> md5(b.msg),
                         wigos_station_identifier |->
                             [t |-> "wsi", parts |-> wsi],
                         datetime |-> d2.val,
                         originating_centre |-> cc.vals[1],
                         data_category |-> cc.vals[2],
                         code |-> PASSED,
                         message |-> "",
                         errors |-> <<>>,
                         warnings |-> b.msg.warnings \o p.wg[job_id]],
                      msg |-> cc.msg, wg |-> p.wg, parse_exc |-> p.exc] :
                cc \in {GetAll(d2.msg,
                               <<"bufrHeaderCentre", "dataCategory">>, 1,
                               nullify)} }) :
              d2 \in {get_datetime(xy.msg, nullify)} }) :
            xy \in {GetAll(d1.msg, <<"#1#longitude", "#1#latitude">>, 1,
                           nullify)} }) :
          d1 \in {get_datetime(b.msg, nullify)} }) :
        b \in {as_bufr(p.msg, FALSE, codec)} }) :
      p \in {parse(msg0, Data(data_dict), mappings, nullify, wg0, tidx)} })

\* col_names after the header rows were read; <<>> when the row of the
\* column names is not among them (the name stays unbound)
ColNames(lines, mappings) ==
    IF mappings.column_names_row \in 1..mappings.number_header_rows
    THEN [i \in 1..Len(lines[mappings.column_names_row]) |->
            lines[mappings.column_names_row][i].s]
    ELSE <<>>

\* ProcessRow whose handler of the try block raises again instead of
\* yielding the FAILED result
ProcessRow_reraise(msg, lines, k, mappings, nullify, wg, job_id, tidx, codec) ==
    LET raise(x, g) == [exc |-> x, result |-> FailedResult(x, msg, g, job_id),
                        msg |-> msg, wg |-> g, parsed |-> FALSE,
                        parse_exc |-> "none"]
    IN
    The({
      IF a.exc # "none" THEN raise(a.exc, a.wg)
      ELSE IF mappings.column_names_row
                  \notin 1..mappings.number_header_rows
      THEN raise("UnboundLocalError", a.wg)
      ELSE The({
        The({
          IF w.exc # "none" THEN raise(w.exc, w.wg)
          ELSE The({ [exc |-> IF e.result.code = FAILED
                              THEN e.result.errors[1] ELSE "none",
                      result |-> e.result, msg |-> e.msg, wg |-> e.wg,
                      parsed |-> TRUE, parse_exc |-> e.parse_exc] :
                     e \in {EncodeRow(reset(msg), AddWsi(data_dict, w.val),
                                      w.val, mappings, nullify, w.wg, job_id,
                                      tidx, codec)} }) :
          w \in {BuildWsi(mappings, data_dict, nullify, a.wg, tidx)} }) :
        data_dict \in {Zip(ColNames(lines, mappings), lines[k])} }) :
      a \in {AsciiCheck(lines[k], 1, nullify, wg, job_id)} })

\* one iteration of the loop over the rows, lines 864-978, for the row
\* lines[k]: [exc, result, msg, wg, parsed, parse_exc].  exc is the exception
\* that leaves the generator; parsed tells that message.parse was called and
\* parse_exc what it raised.
ProcessRow(msg, lines, k, mappings, nullify, wg, job_id, tidx, codec) ==
    LET raise(x, g) == [exc |-> x, result |-> FailedResult(x, msg, g, job_id),
                        msg |-> msg, wg |-> g, parsed |-> FALSE,
                        parse_exc |-> "none"]
    IN
    The({
      IF a.exc # "none" THEN raise(a.exc, a.wg)
      \* col_names is unbound when no header row held the column names
      ELSE IF mappings.column_names_row
                  \notin 1..mappings.number_header_rows
      THEN raise("UnboundLocalError", a.wg)
      ELSE The({
        The({
          IF w.exc # "none" THEN raise(w.exc, w.wg)
          ELSE The({ [exc |-> "none", result |-> e.result, msg |-> e.msg,
                      wg |-> e.wg, parsed |-> TRUE,
                      parse_exc |-> e.parse_exc] :
                     e \in {EncodeRow(reset(msg), AddWsi(data_dict, w.val),
                                      w.val, mappings, nullify, w.wg, job_id,
                                      tidx, codec)} }) :
          w \in {BuildWsi(mappings, data_dict, nullify, a.wg, tidx)} }) :
        data_dict \in {Zip(ColNames(lines, mappings), lines[k])} }) :
      a \in {AsciiCheck(lines[k], 1, nullify, wg, job_id)} })

\* ------------------------------------------------------------------------
\* Templates and CSV texts of the model
\* ------------------------------------------------------------------------
FieldSpec(key, value) == [eccodes_key |-> key, value |-> value]

BaseHeader ==
    << FieldSpec("unexpandedDescriptors", <<"array", "301150">>),
       FieldSpec("masterTablesVersionNumber", <<"const", "38">>),
       FieldSpec("typicalYear", <<"data", "year">>),
       FieldSpec("typicalMonth", <<"data", "month">>),
       FieldSpec("typicalDay", <<"data", "day">>),
       FieldSpec("typicalHour", <<"data", "hour">>),
       FieldSpec("typicalMinute", <<"data", "minute">>) >>

\* a header whose descriptor expression has an unknown kind
BadHeader ==
    [BaseHeader EXCEPT ![1] =
        FieldSpec("unexpandedDescriptors", <<"list", "301150">>)]

\* a header that does not set typicalMinute
NoMinuteHeader == SubSeq(BaseHeader, 1, 6)

\* raw range 0..10, stored as value * 10^1 + 0.5
TemperatureSpec ==
    [eccodes_key |-> "#1#airTemperature", value |-> <<"data", "temp">>,
     valid_min |-> <<"const", "0">>, valid_max |-> <<"const", "10">>,
     scale |-> <<"const", "1">>, offset |-> <<"const", "0.5">>]

NameSpec == FieldSpec("#1#stationOrSiteName", <<"data", "name">>)

\* the field specs put between the temperature and the name
ExtraSpecs ==
    { <<>>,
      \* a key the codec did not enumerate
      << FieldSpec("#1#notInSequence", <<"const", "1">>) >>,
      \* an expression of unknown kind
      << FieldSpec("#1#stationNumber", <<"metadata", "number">>) >>,
      \* a column no row has
      << FieldSpec("#1#stationNumber", <<"data", "pressure">>) >>,
      \* one bound only
      << [eccodes_key |-> "#1#latitude", value |-> <<"const", "95.0">>,
          valid_max |-> <<"const", "90.0">>] >>,
      \* a float for an int key
      << FieldSpec("#1#stationNumber", <<"const", "2.5">>) >> }

WigosSpecs ==
    << FieldSpec("#1#wigosIdentifierSeries", <<"const", "0">>),
       FieldSpec("#1#wigosIssuerOfIdentifier", <<"const", "20000">>),
       FieldSpec("#1#wigosIssueNumber", <<"const", "0">>),
       FieldSpec("#1#wigosLocalIdentifierCharacter", <<"data", "name">>) >>

Template(header, extra, wsi, conforms) ==
    LET common ==
            [conforms |-> conforms,
             inputShortDelayedDescriptorReplicationFactor |-> <<>>,
             inputDelayedDescriptorReplicationFactor |-> <<>>,
             inputExtendedDelayedDescriptorReplicationFactor |-> <<>>,
             number_header_rows |-> 1,
             column_names_row |-> 1,
             delimiter |-> ",",
             header |-> header,
             data |-> <<TemperatureSpec>> \o extra \o <<NameSpec>>]
    IN  IF wsi = <<>> THEN common
        ELSE [k \in DOMAIN common \cup {"wigos_station_identifier"} |->
                IF k = "wigos_station_identifier" THEN wsi ELSE common[k]]

ConstWsi == <<"const", "0-20000-0-12345">>
DataWsi == <<"data", "wsi">>

Templates ==
    { Template(BaseHeader, x, ConstWsi, TRUE) : x \in ExtraSpecs }
    \cup { Template(BaseHeader, <<>>, DataWsi, TRUE),
           \* the four WIGOS components instead of the expression
           Template(BaseHeader, WigosSpecs, <<>>, TRUE),
           \* neither form of the station identifier
           Template(BaseHeader, <<>>, <<>>, TRUE),
           \* rejected by the schema
           Template(BaseHeader, <<>>, ConstWsi, FALSE),
           Template(BadHeader, <<>>, ConstWsi, TRUE),
           Template(NoMinuteHeader, <<>>, ConstWsi, TRUE) }

ColumnNames ==
    << PyStr("year"), PyStr("month"), PyStr("day"), PyStr("hour"),
       PyStr("minute"), PyStr("wsi"), PyStr("temp"), PyStr("name") >>

\* a data row as csv.reader returns it with QUOTE_NONNUMERIC: unquoted
\* fields are floats, quoted fields are strings
Row(wsi, temp, name) ==
    << PyFloat(2021, 1), PyFloat(12, 1), PyFloat(7, 1), PyFloat(5, 1),
       PyFloat(0, 1), PyStr(wsi), temp, PyStr(name) >>

GoodWsi == "0-20000-0-12345"

RowPool ==
    { Row(GoodWsi, PyFloat(7, 1), "abc"),
      \* out of the valid range
      Row(GoodWsi, PyFloat(95, 1), "abc"),
      \* text that is not a number
      Row(GoodWsi, PyStr("abc"), "abc"),
      \* non ASCII text
      Row(GoodWsi, PyFloat(5, 2), "Zuerich-with-u-umlaut"),
      \* an identifier of three parts, and a missing value
      Row("0-20000-12345", PyStr("NA"), "abc"),
      \* a short row: no temp and no name
      SubSeq(Row(GoodWsi, PyFloat(7, 1), "abc"), 1, 6) }

RECURSIVE SeqsUpTo(_, _)
SeqsUpTo(S, n) ==
    IF n = 0 THEN { <<>> }
    ELSE LET shorter == SeqsUpTo(S, n - 1)
         IN  shorter \cup { Append(q, x) : q \in shorter, x \in S }

\* the CSV texts: the row of the column names and up to MaxRows data rows
CsvTexts == { <<ColumnNames>> \o q : q \in SeqsUpTo(RowPool, MaxRows) }

Thread == "t-1"

\* ------------------------------------------------------------------------
\* State
\* ------------------------------------------------------------------------
VARIABLES
    NULLIFY_INVALID,    \* the policy read from CSV2BUFR_NULLIFY_INVALID
    mappings,           \* the template handed to transform
    lines,              \* the CSV text handed to transform, as its rows
    pc,                 \* the generator: "new", "suspended", "done", "raised"
    job_id,             \* job_id of the generator, "" before its first pull
    rows_done,          \* data rows the loop has taken from the reader
    yielded,            \* the results yielded so far, in order
    raised,             \* the exception that left the generator, or "none"
    warnings_global,    \* _warnings_global
    message,            \* the BUFRMessage of the generator
    parse_exc,          \* history: for every data row message.parse was
                        \* called for, the exception parse raised or "none"
    last_codec,         \* history: what the codec did in the last pull, "none"
                        \* when as_bufr was not reached
    codec_failures,     \* history: the pulls in which the codec failed
    call,               \* the last direct call of a module function
    result,             \* what that call returned or raised
    gens                \* two invocations of transform side by side: the
                        \* state of each generator (<<>> when there is one
                        \* invocation only)

vars == << NULLIFY_INVALID, mappings, lines, pc, job_id, rows_done, yielded,
           raised, warnings_global, message, parse_exc, last_codec, codec_failures,
           call, result, gens >>

\* the data rows message.parse was called for
parsed == DOMAIN parse_exc

NoCall == [fn |-> "none"]

\* the data rows of the CSV text: those after the header rows
NumDataRows ==
    IF Len(lines) > mappings.number_header_rows
    THEN Len(lines) - mappings.number_header_rows ELSE 0

DataRow(i) == lines[mappings.number_header_rows + i]

\* ------------------------------------------------------------------------
\* transform: one pull of the generator (next() by the consumer)
\* ------------------------------------------------------------------------
\* the loop from the row after rows_done on, up to the next yield, the end
\* of the input or an exception
RunLoop(msg, wg, tidx, codec) ==
    IF rows_done >= NumDataRows
    THEN /\ pc' = "done"
         /\ warnings_global' = wg
         /\ message' = msg
         /\ last_codec' = "none"
         /\ UNCHANGED << rows_done, yielded, raised, parse_exc,
                         codec_failures >>
    ELSE \E r \in {ProcessRow(msg, lines,
                              mappings.number_header_rows + rows_done + 1,
                              mappings, NULLIFY_INVALID, wg, job_id', tidx,
                              codec)} :
             /\ rows_done' = rows_done + 1
             /\ warnings_global' = r.wg
             /\ message' = r.msg
             \* the outcome of the codec, when as_bufr was reached
             /\ last_codec' = IF r.parsed /\ r.parse_exc = "none"
                              THEN codec ELSE "none"
             /\ codec_failures' = IF last_codec' \in {"ok", "none"}
                                  THEN codec_failures
                                  ELSE codec_failures + 1
             /\ parse_exc' = IF r.parsed
                             THEN SetKey(parse_exc, rows_done + 1, r.parse_exc)
                             ELSE parse_exc
             /\ IF r.exc = "none"
                THEN /\ pc' = "suspended"
                     /\ yielded' = Append(yielded, r.result)
                     /\ UNCHANGED raised
                ELSE /\ pc' = "raised"
                     /\ raised' = r.exc
                     /\ UNCHANGED yielded

\* the first next(): lines 740-861 and then the loop
Start(tidx, codec) ==
    /\ pc = "new"
    /\ codec = "ok" \/ codec_failures < MaxCodecFailures
    /\ job_id' = tidx
    /\ \E p \in {Prologue(lines, mappings, NULLIFY_INVALID, warnings_global,
                          tidx)} :
           IF p.exc # "none"
           THEN /\ pc' = "raised"
                /\ raised' = p.exc
                /\ warnings_global' = p.wg
                /\ last_codec' = "none"
                /\ UNCHANGED << rows_done, yielded, message, parse_exc,
                                codec_failures >>
           ELSE RunLoop(p.msg, p.wg, tidx, codec)
    /\ UNCHANGED << NULLIFY_INVALID, mappings, lines, call, result, gens >>

\* a later next(): line 980 clears the warnings, then the loop goes on
Resume(tidx, codec) ==
    /\ pc = "suspended"
    /\ codec = "ok" \/ codec_failures < MaxCodecFailures
    /\ UNCHANGED job_id
    /\ RunLoop(message, SetKey(warnings_global, job_id, <<>>), tidx, codec)
    /\ UNCHANGED << NULLIFY_INVALID, mappings, lines, call, result, gens >>

Init ==
    /\ NULLIFY_INVALID \in BOOLEAN
    /\ mappings \in Templates
    /\ lines \in CsvTexts
    /\ pc = "new"
    /\ job_id = ""
    /\ rows_done = 0
    /\ yielded = <<>>
    /\ raised = "none"
    /\ warnings_global = EmptyDict
    \* no BUFRMessage exists before line 858 constructs one
    /\ message = None
    /\ parse_exc = EmptyDict
    /\ last_codec = "none"
    /\ codec_failures = 0
    /\ call = NoCall
    /\ result = Ok(None)
    /\ gens = <<>>

Next ==
    \/ \E codec \in CodecOutcomes : Start(Thread, codec)
    \/ \E codec \in CodecOutcomes : Resume(Thread, codec)

Spec == Init /\ [][Next]_vars

\* ------------------------------------------------------------------------
\* Direct calls of the module functions (as the tests make them): one call
\* from a fresh interpreter, in which the calling thread either has started
\* a transform before (it has a slot in _warnings_global) or has not.
\* ------------------------------------------------------------------------
ValidateValues ==
    { PyInt(-1), PyInt(0), PyInt(5), PyInt(10), PyInt(11), PyFloat(5, 2),
      PyFloat(10, 1), PyFloat(95, 1), None, PyStr("abc") }

\* float('-inf') and float('+inf') are the defaults of the two bounds
BoundValues ==
    { None, NegInf, PosInf, PyInt(0), PyInt(10), PyFloat(5, 2) }

ScalingValues ==
    { PyInt(3), PyInt(-2), PyFloat(5, 2), PyFloat(100130, 1), None,
      PyStr("abc"), PyList(<<PyInt(1)>>) }

ScaleValues == { None, PyInt(0), PyInt(2), PyInt(-1), PyFloat(1, 1) }

OffsetValues ==
    { None, PyInt(0), PyInt(20), PyFloat(-25, 10), PyFloat(1, 2) }

\* cells of the column "x" for the calls of parse
ParseValues ==
    { PyFloat(0, 1), PyFloat(7, 1), PyFloat(5, 2), PyFloat(10, 1),
      PyFloat(95, 1), PyFloat(-1, 1), PyStr("7"), PyStr("abc"),
      PyStr("NA"), PyStr("NaN"), PyStr("NAN"), PyStr("None"), PyStr("") }

Restrict(f, S) == [k \in S |-> f[k]]

\* field specs for key: value from column "x", with and without bounds and
\* scaling
ParseSpecs(key) ==
    LET full == [eccodes_key |-> key, value |-> <<"data", "x">>,
                 valid_min |-> <<"const", "0">>,
                 valid_max |-> <<"const", "10">>,
                 scale |-> <<"const", "1">>, offset |-> <<"const", "0.5">>]
        base == {"eccodes_key", "value"}
    IN  { Restrict(full, base \cup b \cup sc) :
            b \in { {}, {"valid_max"}, {"valid_min", "valid_max"} },
            sc \in { {}, {"scale"}, {"scale", "offset"} } }

CallValidateValue ==
    /\ call = NoCall
    /\ \E value \in ValidateValues, valid_min \in BoundValues,
          valid_max \in BoundValues, nullify_on_fail \in BOOLEAN :
          \E r \in {validate_value("test value", value, valid_min, valid_max,
                                   nullify_on_fail, warnings_global,
                                   Thread)} :
              /\ call' = [fn |-> "validate_value", value |-> value,
                          valid_min |-> valid_min, valid_max |-> valid_max,
                          nullify_on_fail |-> nullify_on_fail]
              /\ result' = [exc |-> r.exc, val |-> r.val]
              /\ warnings_global' = r.wg
    /\ UNCHANGED << NULLIFY_INVALID, mappings, lines, pc, job_id, rows_done,
                    yielded, raised, message, parse_exc, last_codec,
                    codec_failures, gens >>

CallApplyScaling ==
    /\ call = NoCall
    /\ \E value \in ScalingValues, scale \in ScaleValues,
          offset \in OffsetValues :
          /\ call' = [fn |-> "apply_scaling", value |-> value,
                      scale |-> scale, offset |-> offset]
          /\ result' = apply_scaling(value, scale, offset)
    /\ UNCHANGED << NULLIFY_INVALID, mappings, lines, pc, job_id, rows_done,
                    yielded, raised, warnings_global, message, parse_exc,
                    last_codec,
                    codec_failures, gens >>

\* message.parse({"x": value, "name": "abc"}, mappings) on a message that was
\* constructed and reset, mappings holding element and the name
CallParse ==
    /\ call = NoCall
    /\ \E key \in {"#1#airTemperature", "#1#stationNumber"},
          value \in ParseValues :
          \E element \in ParseSpecs(key) :
             \E r \in {parse(reset(message),
                             Data([c \in {"x", "name"} |->
                                     IF c = "x" THEN value ELSE PyStr("abc")]),
                             [header |-> <<>>,
                              data |-> <<element, NameSpec>>],
                             NULLIFY_INVALID, warnings_global, Thread)} :
                 /\ call' = [fn |-> "parse", key |-> key, value |-> value,
                             element |-> element]
                 /\ result' = [exc |-> r.exc, val |-> None]
                 /\ message' = r.msg
                 /\ warnings_global' = r.wg
    /\ UNCHANGED << NULLIFY_INVALID, mappings, lines, pc, job_id, rows_done,
                    yielded, raised, parse_exc, last_codec,
                    codec_failures, gens >>

\* message.parse({"x": x, "y": y}, mappings) on a message that was
\* constructed and reset, the data section of mappings holding two field
\* specs of one eccodes_key: the first takes its value from column "x", the
\* second from column "y"
CallParseSameKey ==
    /\ call = NoCall
    /\ \E key \in {"#1#airTemperature", "#1#stationNumber"},
          x \in {PyFloat(7, 1), PyFloat(5, 2), PyStr("NA")},
          y \in {PyFloat(7, 1), PyFloat(5, 2), PyStr("NA")} :
          \E first \in ParseSpecs(key), element \in ParseSpecs(key) :
             \E second \in {[element EXCEPT !.value = <<"data", "y">>]} :
                \E r \in {parse(reset(message),
                                Data([c \in {"x", "y"} |->
                                        IF c = "x" THEN x ELSE y]),
                                [header |-> <<>>,
                                 data |-> <<first, second>>],
                                NULLIFY_INVALID, warnings_global, Thread)} :
                    /\ call' = [fn |-> "parse_same_key", key |-> key,
                                x |-> x, y |-> y, first |-> first,
                                second |-> second]
                    /\ result' = [exc |-> r.exc, val |-> None]
                    /\ message' = r.msg
                    /\ warnings_global' = r.wg
    /\ UNCHANGED << NULLIFY_INVALID, mappings, lines, pc, job_id, rows_done,
                    yielded, raised, parse_exc, last_codec,
                    codec_failures, gens >>

\* value expressions (element.split(":")) for the calls of parse_value
ParseValueElements ==
    { <<"const", "4">>, <<"const", "2.5">>, <<"const", "abc">>,
      <<"array", "1, 2">>, <<"array", "1,2.5">>, <<"array", "1,x">>,
      <<"array", "301150">>, <<"data", "name">>, <<"data", "pressure">>,
      <<"metadata", "name">>, <<"metadata", "pressure">>, <<"">> }

\* rows for the calls of parse_value (None: no row at all)
ParseValueRows ==
    { NoData,
      Data([c \in {"x", "name"} |->
              IF c = "x" THEN PyFloat(7, 1) ELSE PyStr("abc")]),
      Data([c \in {"x", "name"} |->
              IF c = "x" THEN PyStr("NA") ELSE PyStr("xyz")]) }

\* parse_value(element, data) called directly
CallParseValue ==
    /\ call = NoCall
    /\ \E element \in ParseValueElements, data \in ParseValueRows :
          \E r \in {parse_value(element, data, NULLIFY_INVALID,
                                warnings_global, Thread)} :
              /\ call' = [fn |-> "parse_value", element |-> element,
                          data |-> data, wg |-> warnings_global]
              /\ result' = [exc |-> r.exc, val |-> r.val]
              /\ warnings_global' = r.wg
    /\ UNCHANGED << NULLIFY_INVALID, mappings, lines, pc, job_id, rows_done,
                    yielded, raised, message, parse_exc, last_codec,
                    codec_failures, gens >>

\* ------------------------------------------------------------------------
\* validate_mapping_dict of the first version of the module
\* (src/csv2bufr/csv2bufr.py).  A mapping dictionary and its elements are
\* functions from their keys to Python values; the sequence is a list of
\* elements.
\* ------------------------------------------------------------------------
\* the JSON type jsonschema sees in a Python value
JsonType(v) ==
    CASE v.t = "none" -> "null"
      [] v.t \in {"int", "float"} -> "number"
      [] v.t = "str" -> "string"
      [] v.t = "list" -> "array"
      [] OTHER -> "object"

\* the types file_schema allows for the properties it names
FileSchema ==
    [p \in {"inputDelayedDescriptorReplicationFactor", "sequence"} |->
        IF p = "sequence" THEN {"array"} ELSE {"array", "null"}]

\* the types element_schema allows for the properties it names
ElementSchema ==
    [p \in {"key", "value", "column", "valid-min", "valid-max", "scale",
            "offset"} |->
        CASE p = "key" -> {"string"}
          [] p = "value" -> {"boolean", "object", "array", "number",
                             "string", "null"}
          [] p = "column" -> {"string", "null"}
          [] OTHER -> {"number", "null"}]

\* validate(instance, schema) of jsonschema for an object and a schema that
\* has nothing but types of properties: no property is required
Validates(instance, schema) ==
    \A p \in DOMAIN instance \cap DOMAIN schema :
        JsonType(instance[p]) \in schema[p]

\* the comparison of scale and offset without the ValueError
ScaleOffsetCheck_keys_only(element) ==
    IF "scale" \notin DOMAIN element \/ "offset" \notin DOMAIN element
    THEN Raise("KeyError")
    ELSE Ok(None)

\* lines 68-73: (element["scale"] is None) != (element["offset"] is None)
ScaleOffsetCheck(element) ==
    IF "scale" \notin DOMAIN element \/ "offset" \notin DOMAIN element
    THEN Raise("KeyError")
    ELSE IF IsNone(element["scale"]) # IsNone(element["offset"])
    THEN Raise("ValueError")
    ELSE Ok(None)

\* lines 61-74, the loop over the elements from the i-th on
RECURSIVE CheckElements(_, _)
CheckElements(sequence, i) ==
    IF i > Len(sequence) THEN Ok(SUCCESS)
    ELSE IF ~Validates(sequence[i], ElementSchema)
    \* the handler formats its message with element["key"]
    THEN IF "key" \in DOMAIN sequence[i] THEN Raise("ValidationError")
         ELSE Raise("KeyError")
    ELSE The({ IF c.exc # "none" THEN c
               ELSE CheckElements(sequence, i + 1) :
               c \in {ScaleOffsetCheck(sequence[i])} })

validate_mapping_dict(mapping_dict) ==
    IF ~Validates(mapping_dict, FileSchema) THEN Raise("ValidationError")
    ELSE IF "sequence" \notin DOMAIN mapping_dict THEN Raise("KeyError")
    ELSE CheckElements(mapping_dict["sequence"].l, 1)

\* an element of a mapping dictionary
Element(key, valid_min, scale, offset) ==
    [p \in DOMAIN ElementSchema |->
        CASE p = "key" -> PyStr(key)
          [] p = "value" -> None
          [] p = "column" -> PyStr("col1")
          [] p = "valid-min" -> valid_min
          [] p = "valid-max" -> PyInt(10)
          [] p = "scale" -> scale
          [] OTHER -> offset]

Elements ==
    { Element("def", PyInt(0), None, None),
      Element("ghi", PyInt(0), PyFloat(0, 1), PyFloat(27315, 100)),
      \* exactly one of scale and offset is null
      Element("abc", None, None, PyInt(1)),
      Element("jkl", PyInt(0), PyFloat(2, 1), None),
      \* a bound that is text
      Element("mno", PyStr("low"), PyInt(2), PyInt(0)),
      \* neither scale nor offset
      Restrict(Element("pqr", PyInt(0), None, None),
               DOMAIN ElementSchema \ {"scale", "offset"}) }

\* mapping dictionaries with up to MaxElements elements, one without
\* sequence and one whose sequence is null
MappingDicts ==
    { [p \in DOMAIN FileSchema |->
         IF p = "sequence" THEN PyList(q)
         ELSE PyList(<<PyInt(0), PyInt(0)>>)] :
      q \in SeqsUpTo(Elements, MaxElements) }
    \cup { [p \in {"inputDelayedDescriptorReplicationFactor"} |-> None],
           [p \in DOMAIN FileSchema |-> None] }

\* validate_mapping_dict(mapping_dict) called directly
CallValidateMappingDict ==
    /\ call = NoCall
    /\ \E mapping_dict \in MappingDicts :
          /\ call' = [fn |-> "validate_mapping_dict",
                      mapping_dict |-> mapping_dict]
          /\ result' = validate_mapping_dict(mapping_dict)
    /\ UNCHANGED << NULLIFY_INVALID, mappings, lines, pc, job_id, rows_done,
                    yielded, raised, warnings_global, message, parse_exc,
                    last_codec, codec_failures, gens >>

\* ------------------------------------------------------------------------
\* The first csv2bufr module (src/src/csv2bufr/csv2bufr.py): encode and
\* transform.  Its NULLIFY_INVALID is the constant True of line 14.
\* ------------------------------------------------------------------------
\* encode(mapping_dict, data_dict); codec is what the codec does this time.
\* The bytes are a function of the values set, in the order of the sequence.
encode(mapping_dict, data_dict, codec) ==
    LET sequence == mapping_dict["sequence"].l
        \* lines 141-149: the value of an element
        ValueOf(element) ==
            IF ~IsNone(element["value"]) THEN Ok(element["value"])
            ELSE IF ~IsNone(element["column"])
            THEN IF element["column"] \in DOMAIN data_dict
                 THEN Ok(data_dict[element["column"]])
                 ELSE Raise("KeyError")
            ELSE Ok(None)
        \* lines 160-170: the conversion to the native type of the key
        Native(key, value) ==
            IF key \notin DOMAIN NativeType THEN Raise("KeyValueNotFoundError")
            ELSE IF NativeType[key] = "int" /\ value.t # "int"
            THEN IF value.t = "float"
                 THEN IF IsInf(value) THEN Raise("OverflowError")
                      ELSE Ok(PyInt(Round(value.num, value.den)))
                 ELSE IF value.t = "str" THEN intOfStr(value.s)
                 ELSE Raise("TypeError")
            ELSE IF NativeType[key] = "float" /\ value.t # "float"
            THEN float(value)
            ELSE Ok(value)
        RECURSIVE SetAll(_, _)
        SetAll(i, set) ==
            IF i > Len(sequence) THEN Ok(set)
            ELSE The({ IF v.exc # "none" THEN v
                       ELSE IF IsNone(v.val) THEN SetAll(i + 1, set)
                       ELSE IF v.val.t = "list"
                       THEN SetAll(i + 1, Append(set, <<sequence[i]["key"].s,
                                                        v.val>>))
                       ELSE The({ IF n.exc # "none" THEN n
                                  ELSE SetAll(i + 1,
                                         Append(set, <<sequence[i]["key"].s,
                                                       n.val>>)) :
                                  n \in {Native(sequence[i]["key"].s, v.val)}
                                }) :
                       v \in {ValueOf(sequence[i])} })
    IN  The({ IF s.exc # "none" THEN s
              ELSE IF codec = "set_error" /\ s.val # <<>>
              THEN Raise("CodesInternalError")
              ELSE IF codec \in {"pack_internal_error", "pack_error",
                                 "write_error"}
              THEN Raise("CodesInternalError")
              ELSE Ok([t |-> "bytes", b |-> s.val]) :
              s \in {SetAll(1, <<>>)} })

\* transform(data, mappings, station_metadata) of the first module, whose
\* mappings is named mapping_dict here: data is
\* the rows csv.reader returns, codecs[i] what the codec does for the i-th
\* row.  The dictionary returned maps MD5 digests to the encoded messages.
transform(data, mapping_dict, station_metadata, codecs) ==
    LET \* MISSING of the first module (line 12)
        Missing == { PyStr("NA"), PyStr("NaN"), PyStr("NAN"), PyStr("None") }
        \* validate_value of the first module (lines 89-115)
        Validate(value, valid_min, valid_max) ==
            IF IsNone(value) \/ ~IsNumber(value) THEN Ok(value)
            ELSE IF ~IsNone(valid_min) /\ NumLt(value, valid_min)
            THEN Ok(None)
            ELSE IF ~IsNone(valid_max) /\ NumGt(value, valid_max)
            THEN Ok(None)
            ELSE Ok(value)
        \* lines 238-254: the value of an element before validation
        Resolve(element, data_dict) ==
            IF ~IsNone(element["value"]) THEN Ok(element["value"])
            ELSE IF ~IsNone(element["column"])
            THEN IF element["column"] \notin DOMAIN data_dict
                 THEN Raise("ValueError")
                 ELSE IF data_dict[element["column"]] \in Missing
                 THEN Ok(None)
                 ELSE apply_scaling(data_dict[element["column"]],
                                    element["scale"], element["offset"])
            ELSE Ok(None)
        sequence == mapping_dict["sequence"].l
        \* lines 238-260, from the i-th element on
        RECURSIVE Elements_(_, _)
        Elements_(i, data_dict) ==
            IF i > Len(sequence) THEN Ok(data_dict)
            ELSE The({ IF r.exc # "none" THEN r
                       ELSE The({ IF IsNone(sequence[i]["column"])
                                  THEN Elements_(i + 1, data_dict)
                                  ELSE Elements_(i + 1,
                                         [k \in DOMAIN data_dict
                                                \cup {sequence[i]["column"]}
                                          |-> IF k = sequence[i]["column"]
                                              THEN v.val ELSE data_dict[k]]) :
                                  v \in {Validate(r.val,
                                                  sequence[i]["valid-min"],
                                                  sequence[i]["valid-max"])}
                                }) :
                       r \in {Resolve(sequence[i], data_dict)} })
        Merge(a, b) == [k \in DOMAIN a \cup DOMAIN b |->
                           IF k \in DOMAIN b THEN b[k] ELSE a[k]]
        \* lines 226-266, from the row with index rows_read on
        RECURSIVE Rows(_, _)
        Rows(rows_read, messages) ==
            IF rows_read > Len(data) THEN Ok(messages)
            ELSE The({ IF d.exc # "none" THEN d
                       ELSE The({ IF msg.exc # "none" THEN msg
                                  ELSE Rows(rows_read + 1,
                                            Merge(messages,
                                                  [key \in {md5hex(msg.val)}
                                                   |-> msg.val])) :
                                  msg \in {encode(mapping_dict, d.val,
                                                  codecs[rows_read - 1])} }) :
                       d \in {Elements_(1, Merge(Zip(data[1],
                                                     data[rows_read]),
                                                 station_metadata["data"]))}
                    })
    IN  The({ IF e.exc # "none" THEN e
              ELSE IF e.val # SUCCESS THEN Raise("ValueError")
              ELSE Rows(2, EmptyDict) :
              e \in {validate_mapping_dict(mapping_dict)} })

\* a mapping dictionary of the first module over the columns of ColumnNames
TransformMappings ==
    { [p \in DOMAIN FileSchema |->
         IF p = "sequence"
         THEN PyList(<< [Element("masterTablesVersionNumber", None, None,
                                 None)
                           EXCEPT !["value"] = PyInt(36),
                                  !["column"] = None,
                                  !["valid-max"] = None],
                        [Element("#1#airTemperature", PyInt(0), scale,
                                 PyFloat(27315, 100))
                           EXCEPT !["column"] = PyStr("temp"),
                                  !["valid-max"] = PyInt(300)],
                        [Element("#1#stationOrSiteName", None, None, None)
                           EXCEPT !["column"] = PyStr("name")] >>)
         ELSE None] : scale \in {PyInt(0), None} }

\* transform of the first module called directly
CallTransform ==
    /\ call = NoCall
    /\ \E mapping_dict \in TransformMappings,
          rows \in SeqsUpTo(RowPool, MaxRows),
          codecs \in [1..MaxRows -> {"ok", "pack_error"}] :
          /\ call' = [fn |-> "transform", data |-> <<ColumnNames>> \o rows,
                      mappings |-> mapping_dict, codecs |-> codecs]
          /\ result' = transform(<<ColumnNames>> \o rows, mapping_dict,
                                 [data |-> [k \in {PyStr("station-name")}
                                            |-> PyStr("test data")]],
                                 codecs)
    /\ UNCHANGED << NULLIFY_INVALID, mappings, lines, pc, job_id, rows_done,
                    yielded, raised, warnings_global, message, parse_exc,
                    last_codec, codec_failures, gens >>

\* ------------------------------------------------------------------------
\* csv2bufr.templates: load_template
\* ------------------------------------------------------------------------
\* load_template(template_name).  TEMPLATES is the index of that name (id |->
\* name and path), files what json.load gives for a path, and
\* ORIGINATING_CENTRE and ORIGINATING_SUBCENTRE the values of lines 37-38.
\* Value expressions are kept as their split(":") tokens.
load_template(template_name, TEMPLATES, files, ORIGINATING_CENTRE, ORIGINATING_SUBCENTRE) ==
    LET named == { id \in DOMAIN TEMPLATES :
                     TEMPLATES[id].name = template_name }
        \* lines 90-101
        fname == IF template_name \in DOMAIN TEMPLATES
                 THEN PyStr(TEMPLATES[template_name].path)
                 ELSE IF named # {}
                 THEN PyStr(TEMPLATES[CHOOSE id \in named : TRUE].path)
                 ELSE None
    IN  IF IsNone(fname) THEN Raise("RuntimeError")
        ELSE The({
          \* lines 116-124: template['header'][hidx]["eccodes_key"] is a
          \* str, and the assignment to its item "value" raises TypeError
          IF \E hidx \in 1..Len(template.header) :
                template.header[hidx].eccodes_key
                    \in {"bufrHeaderCentre", "bufrHeaderSubCentre"}
          THEN Raise("TypeError")
          \* lines 126-135
          ELSE Ok([template EXCEPT !.header =
                     @ \o << FieldSpec("bufrHeaderCentre",
                                       <<"const", ORIGINATING_CENTRE>>),
                             FieldSpec("bufrHeaderSubCentre",
                                       <<"const", ORIGINATING_SUBCENTRE>>) >>]) :
          template \in {files[fname.s]} })

\* template files of the search path: the id of the metadata, the stem of
\* the file name, the path and the header.  The second has entries for the centre and the subcentre, as
\* the template of pygeoapi_daycli_plugin.py has; the third for the centre
TemplateFiles ==
    { [id |-> "id-aws", name |-> "aws-template", path |-> "aws-template.json",
       header |-> BaseHeader],
      [id |-> "id-daycli", name |-> "daycli-template",
       path |-> "daycli-template.json",
       header |-> << FieldSpec("bufrHeaderCentre", <<"const", "0">>),
                     FieldSpec("bufrHeaderSubCentre", <<"const", "0">>) >>
                  \o BaseHeader],
      [id |-> "id-synop", name |-> "synop-template",
       path |-> "synop-template.json",
       header |-> <<BaseHeader[1],
                    FieldSpec("bufrHeaderCentre", <<"const", "0">>)>>
                  \o SubSeq(BaseHeader, 2, Len(BaseHeader))] }

\* load_template called directly, by id, by file name, and with a name that
\* is not indexed
CallLoadTemplate ==
    /\ call = NoCall
    /\ \E template_name \in { f.id : f \in TemplateFiles }
                             \cup { f.name : f \in TemplateFiles }
                             \cup { "unknown" },
          centre \in {"65535", "20000"}, subcentre \in {"65535", "0"} :
          /\ call' = [fn |-> "load_template",
                      template_name |-> template_name,
                      centre |-> centre, subcentre |-> subcentre]
          /\ result' =
                load_template(
                    template_name,
                    [id \in { f.id : f \in TemplateFiles } |->
                        The({ [name |-> f.name, path |-> f.path] :
                              f \in { g \in TemplateFiles : g.id = id } })],
                    [path \in { f.path : f \in TemplateFiles } |->
                        The({ [header |-> f.header] :
                              f \in { g \in TemplateFiles :
                                        g.path = path } })],
                    centre, subcentre)
    /\ UNCHANGED << NULLIFY_INVALID, mappings, lines, pc, job_id, rows_done,
                    yielded, raised, warnings_global, message, parse_exc,
                    last_codec, codec_failures, gens >>

InitCalls ==
    /\ NULLIFY_INVALID \in BOOLEAN
    /\ mappings = Template(BaseHeader, <<>>, ConstWsi, TRUE)
    /\ lines = <<ColumnNames>>
    /\ pc = "new"
    /\ job_id = ""
    /\ rows_done = 0
    /\ yielded = <<>>
    /\ raised = "none"
    /\ warnings_global \in { EmptyDict, SetKey(EmptyDict, Thread, <<>>) }
    /\ message = NewMessage
    /\ parse_exc = EmptyDict
    /\ last_codec = "none"
    /\ codec_failures = 0
    /\ call = NoCall
    /\ result = Ok(None)
    /\ gens = <<>>

NextCalls ==
    \/ CallValidateValue
    \/ CallApplyScaling
    \/ CallParse
    \/ CallParseValue
    \/ CallValidateMappingDict
    \/ CallTransform
    \/ CallParseSameKey
    \/ CallLoadTemplate

SpecCalls == InitCalls /\ [][NextCalls]_vars

\* ------------------------------------------------------------------------
\* Two invocations of transform whose generators are pulled in any order,
\* each on its own thread or both on the same thread.  The template and the
\* policy are shared; the codec encodes every message.
\* ------------------------------------------------------------------------
\* a generator that was created and not pulled yet
NewGenerator(thread, text) ==
    [thread |-> thread, lines |-> text, pc |-> "new", job_id |-> "",
     rows_done |-> 0, yielded |-> <<>>, raised |-> "none", message |-> None,
     \* history: the rows the other generator had done at the last pull of
     \* this one
     other_done |-> 0]

\* line 980 without the assignment: the warnings stay
ClearWarnings_keep(wg, job) == wg

\* line 980: _warnings_global[job_id] = []
ClearWarnings(wg, job) == SetKey(wg, job, <<>>)

\* the loop of generator g from the row after g.rows_done on, up to the next
\* yield, the end of the input or an exception: [gen, wg]
GenLoop(g, msg, wg, codec) ==
    IF g.rows_done >= Len(g.lines) - mappings.number_header_rows
    THEN [gen |-> [g EXCEPT !.pc = "done", !.message = msg], wg |-> wg]
    ELSE The({
      IF r.exc = "none"
      THEN [gen |-> [g EXCEPT !.pc = "suspended", !.rows_done = @ + 1,
                              !.yielded = Append(@, r.result),
                              !.message = r.msg],
            wg |-> r.wg]
      ELSE [gen |-> [g EXCEPT !.pc = "raised", !.rows_done = @ + 1,
                              !.raised = r.exc, !.message = r.msg],
            wg |-> r.wg] :
      r \in {ProcessRow(msg, g.lines,
                        mappings.number_header_rows + g.rows_done + 1,
                        mappings, NULLIFY_INVALID, wg, g.job_id, g.thread,
                        codec)} })

\* one next() on generator g: [gen, wg]
GenPull(g, wg, codec) ==
    IF g.pc = "new"
    THEN The({
      IF p.exc # "none"
      THEN [gen |-> [g EXCEPT !.pc = "raised", !.raised = p.exc,
                              !.job_id = g.thread],
            wg |-> p.wg]
      ELSE GenLoop([g EXCEPT !.job_id = g.thread], p.msg, p.wg, codec) :
      p \in {Prologue(g.lines, mappings, NULLIFY_INVALID, wg, g.thread)} })
    ELSE GenLoop(g, g.message, ClearWarnings(wg, g.job_id), codec)

\* the consumer pulls generator i
Pull(i) ==
    /\ gens[i].pc \in {"new", "suspended"}
    /\ \E r \in {GenPull(gens[i], warnings_global, "ok")} :
          /\ gens' = [gens EXCEPT
                        ![i] = [r.gen EXCEPT
                                  !.other_done = gens[3 - i].rows_done]]
          /\ warnings_global' = r.wg
    /\ UNCHANGED << NULLIFY_INVALID, mappings, lines, pc, job_id, rows_done,
                    yielded, raised, message, parse_exc, last_codec,
                    codec_failures, call, result >>

\* rows with a temperature inside and outside the valid range
TwoRows ==
    { Row(GoodWsi, PyFloat(7, 1), "abc"), Row(GoodWsi, PyFloat(95, 1), "abc") }

\* the CSV texts of the two invocations: MaxRows data rows each
TwoTexts ==
    { <<ColumnNames>> \o q :
        q \in { s \in SeqsUpTo(TwoRows, MaxRows) : Len(s) = MaxRows } }

\* the template alone, and with a field whose column no row has
TwoTemplates ==
    { Template(BaseHeader, <<>>, ConstWsi, TRUE),
      Template(BaseHeader,
               << FieldSpec("#1#stationNumber", <<"data", "pressure">>) >>,
               ConstWsi, TRUE) }

InitTwo ==
    /\ NULLIFY_INVALID \in BOOLEAN
    /\ mappings \in TwoTemplates
    /\ lines = <<ColumnNames>>
    /\ pc = "new"
    /\ job_id = ""
    /\ rows_done = 0
    /\ yielded = <<>>
    /\ raised = "none"
    /\ warnings_global = EmptyDict
    /\ message = None
    /\ parse_exc = EmptyDict
    /\ last_codec = "none"
    /\ codec_failures = 0
    /\ call = NoCall
    /\ result = Ok(None)
    /\ \E other \in {"t-1", "t-2"}, text1 \in TwoTexts, text2 \in TwoTexts :
          gens = << NewGenerator("t-1", text1), NewGenerator(other, text2) >>

NextTwo == \E i \in 1..2 : Pull(i)

SpecTwo == InitTwo /\ [][NextTwo]_vars

\* ------------------------------------------------------------------------
\* One BUFRMessage used directly: up to MaxOps calls of its methods, in any
\* order, on a message that was just constructed
\* ------------------------------------------------------------------------
\* a float key and an int key of the sequence
MessageKeys ==
    { "#1#airTemperature", "#1#stationNumber",
      "#1#airTemperature->associatedField" }

MessageValues ==
    { PyFloat(5, 2), PyFloat(7, 2), PyInt(7), PosInf, PyStr("abc"),
      PyStr("2.5"), PyList(<<PyInt(1)>>), None }

\* the call that was made last: its name and arguments, the message before
\* it (history), the number of calls so far and the number of codec handles
\* that were obtained and not released so far
Called(fn, args, before) ==
    [fn |-> fn, args |-> args, before |-> before, n |-> call.n + 1,
     open |-> call.open]

\* message.set_element(key, value)
DoSetElement ==
    /\ call.n < MaxOps
    /\ \E key \in MessageKeys, value \in MessageValues :
          \E r \in {set_element(message, key, value, NULLIFY_INVALID)} :
              /\ call' = Called("set_element", <<key, value>>, message)
              /\ result' = [exc |-> r.exc, val |-> r.val]
              /\ message' = r.msg
    /\ UNCHANGED << NULLIFY_INVALID, mappings, lines, pc, job_id, rows_done,
                    yielded, raised, warnings_global, parse_exc, last_codec,
                    codec_failures, gens >>

\* message.set_element(key, message.get_element(key))
DoSetGet ==
    /\ call.n < MaxOps
    /\ \E key \in MessageKeys :
          \E g \in {get_element(message, key, NULLIFY_INVALID)} :
              /\ call' = Called("set_get", <<key>>, message)
              /\ IF g.exc # "none"
                 THEN /\ result' = [exc |-> g.exc, val |-> None]
                      /\ message' = g.msg
                 ELSE \E r \in {set_element(g.msg, key, g.val,
                                            NULLIFY_INVALID)} :
                          /\ result' = [exc |-> r.exc, val |-> r.val]
                          /\ message' = r.msg
    /\ UNCHANGED << NULLIFY_INVALID, mappings, lines, pc, job_id, rows_done,
                    yielded, raised, warnings_global, parse_exc, last_codec,
                    codec_failures, gens >>

\* message.get_element(key) for the key of a value, of an attribute, of an
\* attribute of a header key, and for keys that are not registered
DoGetElement ==
    /\ call.n < MaxOps
    /\ \E key \in MessageKeys
                   \cup { "#1#airTemperature->units",
                          "#1#airTemperature->scale", "typicalYear->units",
                          "#9#airTemperature->units", "#9#airTemperature" } :
          \E r \in {get_element(message, key, NULLIFY_INVALID)} :
              /\ call' = Called("get_element", <<key>>, message)
              /\ result' = [exc |-> r.exc, val |-> r.val]
              /\ message' = r.msg
    /\ UNCHANGED << NULLIFY_INVALID, mappings, lines, pc, job_id, rows_done,
                    yielded, raised, warnings_global, parse_exc, last_codec,
                    codec_failures, gens >>

\* message.as_bufr() and message.as_bufr(use_cached=True)
DoAsBufr ==
    /\ call.n < MaxOps
    /\ \E use_cached \in BOOLEAN, codec \in CodecOutcomes :
          \E r \in {as_bufr(message, use_cached, codec)} :
              /\ call' = [Called("as_bufr", <<use_cached, codec>>, message)
                            EXCEPT !.open = @ + r.obtained - r.released]
              /\ result' = [exc |-> r.exc, val |-> r.val,
                            obtained |-> r.obtained,
                            released |-> r.released]
              /\ message' = r.msg
    /\ UNCHANGED << NULLIFY_INVALID, mappings, lines, pc, job_id, rows_done,
                    yielded, raised, warnings_global, parse_exc, last_codec,
                    codec_failures, gens >>

\* message.reset()
DoReset ==
    /\ call.n < MaxOps
    /\ call' = Called("reset", <<>>, message)
    /\ result' = Ok(None)
    /\ message' = reset(message)
    /\ UNCHANGED << NULLIFY_INVALID, mappings, lines, pc, job_id, rows_done,
                    yielded, raised, warnings_global, parse_exc, last_codec,
                    codec_failures, gens >>

InitMessageCalls ==
    /\ NULLIFY_INVALID \in BOOLEAN
    /\ mappings = Template(BaseHeader, <<>>, ConstWsi, TRUE)
    /\ lines = <<ColumnNames>>
    /\ pc = "new"
    /\ job_id = ""
    /\ rows_done = 0
    /\ yielded = <<>>
    /\ raised = "none"
    /\ warnings_global = EmptyDict
    /\ message \in {NewMessage, DayCliMessage}
    /\ parse_exc = EmptyDict
    /\ last_codec = "none"
    /\ codec_failures = 0
    /\ call = [fn |-> "BUFRMessage", args |-> <<>>, before |-> None, n |-> 0,
               open |-> 0]
    /\ result = Ok(None)
    /\ gens = <<>>

NextMessageCalls ==
    \/ DoSetElement
    \/ DoSetGet
    \/ DoGetElement
    \/ DoAsBufr
    \/ DoReset

SpecMessage == InitMessageCalls /\ [][NextMessageCalls]_vars

\* ------------------------------------------------------------------------
\* Properties of the direct calls (SpecCalls)
\* ------------------------------------------------------------------------
\* the bounds of a call of validate_value are both given and numbers
BothBounds == ~IsNone(call.valid_min) /\ ~IsNone(call.valid_max)

\* valid_min <= value <= valid_max for the call of validate_value
WithinBounds ==
    NumLe(call.valid_min, call.value) /\ NumLe(call.value, call.valid_max)

\* C6: validate_value with nullify_on_fail=True never raises for a numeric
\* value, also when the calling thread has started no transform; it returns
\* None exactly when the value is outside the bounds and the value unchanged
\* otherwise.
C6_NullifyNeverRaises ==
    (call.fn = "validate_value" /\ call.nullify_on_fail
        /\ IsNumber(call.value))
    => /\ result.exc = "none"
       /\ BothBounds => (IsNone(result.val) <=> ~WithinBounds)
       /\ (BothBounds /\ WithinBounds) => result.val = call.value

ScaledNum(value, scale, offset) ==
    IF scale.num >= 0
    THEN value.num * Pow10(scale.num) * offset.den + offset.num * value.den
    ELSE value.num * offset.den + offset.num * value.den * Pow10(-scale.num)

ScaledDen(value, scale, offset) ==
    IF scale.num >= 0 THEN value.den * offset.den
    ELSE value.den * Pow10(-scale.num) * offset.den

\* n/d = value * 10^scale + offset
IsScaled(n, d, value, scale, offset) ==
    n * ScaledDen(value, scale, offset) = d * ScaledNum(value, scale, offset)

\* C8: apply_scaling(v, s, o) is v * 10^s + o for a numeric v when s and o
\* are both given; it returns v unchanged when s or o is None and when v is
\* not a number.
C8_ScalingFormula ==
    call.fn = "apply_scaling"
    => IF IsNumber(call.value) /\ ~IsNone(call.scale) /\ ~IsNone(call.offset)
       THEN /\ result.exc = "none"
            /\ IsNumber(result.val)
            /\ IsScaled(result.val.num, result.val.den, call.value,
                        call.scale, call.offset)
       ELSE result = Ok(call.value)

\* the scenario of the specification: 100130 * 10^2 + 0 = 10013000
C8_Witness ==
    /\ call.fn = "apply_scaling"
    /\ call.value = PyFloat(100130, 1) /\ call.scale = PyInt(2)
    /\ call.offset = PyInt(0)
    /\ result = Ok(PyFloat(10013000, 1))

\* the number a literal of the template denotes
LiteralValue(expr) == PyFloat(LiteralOf(expr[2])[2], LiteralOf(expr[2])[3])

\* the call of parse had a cell that is a number or the text of one
NumericCell ==
    call.fn = "parse" /\ call.value \notin MISSING
    /\ float(call.value).exc = "none"

RawValue == float(call.value).val

\* the raw value of the call of parse passes the range check of its field
RawInRange ==
    {"valid_min", "valid_max"} \subseteq DOMAIN call.element
    => /\ NumLe(LiteralValue(call.element.valid_min), RawValue)
       /\ NumLe(RawValue, LiteralValue(call.element.valid_max))

\* v is what set_element stores for the raw value of the call of parse:
\* the raw value, scaled when the field has scale and offset, converted to
\* the native type of the key
IsStoredRaw(v) ==
    LET sc == IF {"scale", "offset"} \subseteq DOMAIN call.element
              THEN LiteralValue(call.element.scale) ELSE PyInt(0)
        of == IF {"scale", "offset"} \subseteq DOMAIN call.element
              THEN LiteralValue(call.element.offset) ELSE PyInt(0)
    IN  /\ IsNumber(v)
        /\ IF NativeType[call.key] = "float"
           THEN v.t = "float"
                /\ IsScaled(v.num, v.den, RawValue, sc, of)
           ELSE v.t = "int"
                /\ v.num = Round(ScaledNum(RawValue, sc, of),
                                 ScaledDen(RawValue, sc, of))

\* C5: parse checks the range on the raw value and scales afterwards: a raw
\* value inside the bounds is stored as value * 10^scale + offset (in the
\* native type of the key) even if that lies outside the bounds; a raw value
\* outside is never scaled: it is stored as None (lenient) or parse raises
\* ValueError and stores nothing (strict).
C5_ValidateBeforeScale ==
    NumericCell
    => IF RawInRange
       THEN /\ result.exc = "none"
            /\ IsStoredRaw(message.dict[call.key].value)
       ELSE /\ IsNone(message.dict[call.key].value)
            /\ result.exc = (IF NULLIFY_INVALID THEN "none" ELSE "ValueError")

\* raw 7 lies in 0..10 and is stored as 70.5, outside 0..10
C5_Witness ==
    /\ NumericCell /\ call.key = "#1#airTemperature"
    /\ call.value = PyFloat(7, 1)
    /\ {"valid_min", "valid_max", "scale", "offset"}
            \subseteq DOMAIN call.element
    /\ message.dict[call.key].value = PyFloat(141, 2)
    /\ result.exc = "none"

\* C10: a cell that is one of "NA", "NaN", "NAN", "None", "" becomes None
\* before validation and scaling: the key is stored as None, parse does not
\* raise, records no warning, and goes on with the next field.
C10_MissingBecomesNone ==
    (call.fn = "parse" /\ call.value \in MISSING)
    => /\ result.exc = "none"
       /\ IsNone(message.dict[call.key].value)
       /\ message.warnings = <<>>
       /\ message.dict["#1#stationOrSiteName"].value = PyStr("abc")

\* "NA" for a field with bounds, scale and offset was stored as None
C10_Witness ==
    /\ call.fn = "parse" /\ call.value = PyStr("NA")
    /\ {"valid_min", "valid_max", "scale", "offset"}
            \subseteq DOMAIN call.element
    /\ result.exc = "none"
    /\ IsNone(message.dict[call.key].value)

\* ------------------------------------------------------------------------
\* Properties of transform (Spec)
\* ------------------------------------------------------------------------
\* the code before the loop has completed
PrologueDone ==
    pc \in {"suspended", "done"} \/ (pc = "raised" /\ rows_done > 0)

\* data row i as the dict of its columns
RowDict(i) == Zip(ColNames(lines, mappings), DataRow(i))

\* the station identifier of data row i cannot be built
WsiFails(i) ==
    BuildWsi(mappings, RowDict(i), NULLIFY_INVALID,
             SetKey(EmptyDict, Thread, <<>>), Thread).exc # "none"

HasNonAscii(row) ==
    \E j \in 1..Len(row) : row[j].t = "str" /\ ~isascii(row[j].s)

Members(q) == { q[j] : j \in 1..Len(q) }

\* r carries the temperature of data row i: every template of the model
\* stores column temp, when it lies in 0..10, as temp * 10 + 0.5
CarriesTemperatureOf(r, i) ==
    LET d == RowDict(i)
        v == r.bufr4.b["#1#airTemperature"]
    IN  IF "temp" \in DOMAIN d /\ IsNumber(d.temp)
           /\ NumLe(PyInt(0), d.temp) /\ NumLe(d.temp, PyInt(10))
        THEN IsNumber(v)
             /\ IsScaled(v.num, v.den, d.temp, PyInt(1), PyFloat(1, 2))
        ELSE IsNone(v)

C2_StrictErrorAborts ==
    ~NULLIFY_INVALID
    => \A i \in parsed :
          parse_exc[i] \in {"ValueError", "RuntimeError"}
          => (pc = "raised" /\ Len(yielded) < i)

\* C2 as amended: under the strict policy an error that parse raises for a
\* row is caught by transform: the row is yielded FAILED with bufr4 None and
\* the error in errors, and the batch goes on; no exception that leaves
\* transform comes from parse.
C2_StrictErrorYieldsFailed ==
    ~NULLIFY_INVALID
    => /\ \A i \in parsed :
             parse_exc[i] # "none"
             => /\ i <= Len(yielded)
                /\ yielded[i].code = FAILED
                /\ IsNone(yielded[i].bufr4)
                /\ yielded[i].errors = <<parse_exc[i]>>
       /\ (pc = "raised" /\ rows_done > 0) => rows_done \notin parsed

\* strict: the first row was out of range, the batch ran to its end
C2_Witness ==
    /\ ~NULLIFY_INVALID /\ pc = "done" /\ Len(yielded) = 2
    /\ 1 \in parsed /\ parse_exc[1] = "ValueError"
    /\ yielded[1].code = FAILED

\* C3: under the lenient policy a row with a non ASCII field is skipped:
\* message.parse is not called for it and no result is built from it.
C3_NonAsciiRowSkipped ==
    NULLIFY_INVALID
    => \A i \in 1..rows_done :
          HasNonAscii(DataRow(i)) => i \notin parsed

\* the data specs whose key the codec did not enumerate
UnknownKeySpecs ==
    { j \in 1..Len(mappings.data) :
        mappings.data[j].eccodes_key \notin DOMAIN NativeType }

\* the data specs whose value expression has an unknown kind
MalformedSpecs ==
    { j \in 1..Len(mappings.data) :
        mappings.data[j].value[1] \notin {"const", "data", "array", ""} }

RowColumns(i) ==
    DOMAIN RowDict(i)
    \cup (IF "wigos_station_identifier" \in DOMAIN mappings
          THEN {"_wsi_series", "_wsi_issuer", "_wsi_issue_number",
                "_wsi_local"}
          ELSE {})

IsDataSpec(e) == e.value[1] = "data" /\ Len(e.value) = 2

\* data spec j names a column that row i does not have
AbsentColumn(j, i) ==
    LET e == mappings.data[j]
    IN  IsDataSpec(e) /\ e.value[2] \notin RowColumns(i)

\* the cell of row i that data spec j names
CellOf(j, i) == RowDict(i)[mappings.data[j].value[2]]

\* parse checks the range of spec e
IsRangeChecked(e) ==
    /\ e.eccodes_key \in DOMAIN NativeType
    /\ NativeType[e.eccodes_key] \in {"int", "float"}
    /\ e.eccodes_key \notin HEADERS
    /\ {"valid_min", "valid_max"} \subseteq DOMAIN e

\* data spec j names a number of row i outside valid_min..valid_max
OutOfRange(j, i) ==
    LET e == mappings.data[j]
    IN  /\ IsDataSpec(e) /\ e.value[2] \in DOMAIN RowDict(i)
        /\ IsRangeChecked(e)
        /\ IsNumber(CellOf(j, i))
        /\ ~(NumLe(LiteralValue(e.valid_min), CellOf(j, i))
              /\ NumLe(CellOf(j, i), LiteralValue(e.valid_max)))

FieldProblem(j, i) == AbsentColumn(j, i) \/ OutOfRange(j, i)

\* nothing but absent columns and out of range numbers is wrong with row i
OtherwiseFine(i) ==
    /\ \A j \in 1..Len(mappings.data) :
        LET e == mappings.data[j]
        IN  /\ e.eccodes_key \in DOMAIN NativeType
            /\ e.value[1] \in {"const", "data", "array"}
            /\ (IsDataSpec(e) /\ e.value[2] \in DOMAIN RowDict(i)
                /\ NativeType[e.eccodes_key] \in {"int", "float"})
               => (IsNumber(CellOf(j, i)) \/ CellOf(j, i) \in MISSING)
    \* the header gives the date and the time of the message
    /\ \A k \in 1..5 :
          \E h \in 1..Len(mappings.header) :
              mappings.header[h].eccodes_key = TypicalKeys[k]

IsParseValueCall(kind) ==
    /\ call.fn = "parse_value"
    /\ call.element[1] = kind
    /\ ~call.data.isNone

\* what parse_value gives for data:<key> on the row and the warnings of the
\* call
AsDataColumn ==
    parse_value(<<"data", call.element[2]>>, call.data, NULLIFY_INVALID,
                call.wg, Thread)

\* C11: metadata:<key> is resolved by a lookup of key in the dictionary the
\* resolver is given: the value of the key is returned when the key is
\* present, and an absent key ends the call as an absent data: column does
\* (same exception or same returned value, same warnings)
C11_MetadataResolved ==
    IsParseValueCall("metadata") =>
        IF call.element[2] \in DOMAIN call.data.cols
        THEN /\ result.exc = "none"
             /\ result.val = call.data.cols[call.element[2]]
        ELSE /\ result.exc = AsDataColumn.exc
             /\ result.val = AsDataColumn.val
             /\ warnings_global = AsDataColumn.wg

\* the numbers a list of literals stands for, by the table of the literals
ArrayOf(payload) ==
    CASE payload = "1, 2" -> << <<1, 1>>, <<2, 1>> >>
      [] payload = "1,2.5" -> << <<1, 1>>, <<5, 2>> >>
      [] payload = "301150" -> << <<301150, 1>> >>
      [] OTHER -> <<>>

\* C17: const:<literal> gives the number of the literal, a float when the
\* literal has a '.' and an int otherwise, whatever the row is (no row at
\* all included); array:<list> gives the numbers of the list in order, all
\* floats when the list has a '.' and all ints otherwise.  The row is an
\* input of the call only.
C17_ConstAndArray ==
    call.fn = "parse_value" =>
        /\ (call.element[1] = "const" /\ IsNumericLiteral(call.element[2])) =>
              /\ result.exc = "none"
              /\ result.val.t = IF HasDot(call.element[2]) THEN "float"
                                ELSE "int"
              /\ result.val.num = LiteralOf(call.element[2])[2]
              /\ result.val.den = LiteralOf(call.element[2])[3]
        /\ (call.element[1] = "array" /\ ArrayOf(call.element[2]) # <<>>) =>
              /\ result.exc = "none"
              /\ result.val.t = "list"
              /\ Len(result.val.l) = Len(ArrayOf(call.element[2]))
              /\ \A i \in 1..Len(result.val.l) :
                    /\ result.val.l[i].t = IF HasDot(call.element[2])
                                           THEN "float" ELSE "int"
                    /\ result.val.l[i].num = ArrayOf(call.element[2])[i][1]
                    /\ result.val.l[i].den = ArrayOf(call.element[2])[i][2]

\* array:1,2.5 was resolved: both numbers are floats
C17_Witness ==
    /\ call.fn = "parse_value"
    /\ call.element = <<"array", "1,2.5">>
    /\ result.val = PyList(<<PyFloat(1, 1), PyFloat(5, 2)>>)

\* ------------------------------------------------------------------------
\* validate_mapping_dict called directly (SpecCalls)
\* ------------------------------------------------------------------------
\* the elements of the mapping dictionary of the call, <<>> when it has no
\* list of them
SequenceOfCall ==
    IF "sequence" \in DOMAIN call.mapping_dict
       /\ call.mapping_dict["sequence"].t = "list"
    THEN call.mapping_dict["sequence"].l ELSE <<>>

HasSequence ==
    /\ "sequence" \in DOMAIN call.mapping_dict
    /\ call.mapping_dict["sequence"].t = "list"

\* the element has scale and offset, and this one is null
NullAt(element, p) == p \in DOMAIN element /\ IsNone(element[p])

\* the element has scale and offset, and this one is a value
ValueAt(element, p) == p \in DOMAIN element /\ ~IsNone(element[p])

\* scale and offset of the element are both null or both values
PairConsistent(element) ==
    \/ NullAt(element, "scale") /\ NullAt(element, "offset")
    \/ ValueAt(element, "scale") /\ ValueAt(element, "offset")

\* exactly one of scale and offset of the element is null
OneNull(element) ==
    \/ NullAt(element, "scale") /\ ValueAt(element, "offset")
    \/ ValueAt(element, "scale") /\ NullAt(element, "offset")

ElementConforms(element) ==
    /\ element["key"].t = "str"
    /\ element["column"].t \in {"str", "none"}
    /\ \A p \in {"valid-min", "valid-max", "scale", "offset"} \cap
                DOMAIN element :
          element[p].t \in {"int", "float", "none"}

NoWsiForm ==
    /\ "wigos_station_identifier" \notin DOMAIN mappings
    /\ \E i \in 1..4 :
          \A j \in 1..Len(mappings.data) :
              mappings.data[j].eccodes_key # WigosKeys[i]

\* C12: when the template is rejected by validate_template, or has neither
\* form of the station identifier, the first pull raises and nothing is ever
\* yielded: no row is read or parsed and no BUFRMessage is constructed
C12_RejectedTemplateRaises ==
    (pc # "new" /\ (~mappings.conforms \/ NoWsiForm)) =>
        /\ pc = "raised"
        /\ raised \in {"RuntimeError", "ValueError"}
        /\ yielded = <<>>
        /\ rows_done = 0
        /\ parse_exc = EmptyDict
        /\ message = None

\* the first pull with a rejected template and a CSV text that has data rows
C12_Witness ==
    /\ pc = "raised"
    /\ NumDataRows > 0
    /\ ~mappings.conforms
    /\ raised = "RuntimeError"
    /\ message = None

\* ------------------------------------------------------------------------
\* The identifier of a result and the date and time of the message (Spec)
\* ------------------------------------------------------------------------
\* the values stored for typicalYear .. typicalMinute by the row processed
\* last
StoredTypical == [i \in 1..5 |-> message.dict[TypicalKeys[i]].value]

\* C18: the id of a PASSED result is made of the station identifier of the
\* result and of the stored typicalYear, typicalMonth, typicalDay,
\* typicalHour and typicalMinute followed by 00 seconds; a row after whose
\* parsing one of the five is None is yielded FAILED without bytes, also
\* when the codec has encoded the message
C18_IdFromStoredDatetime ==
    pc = "suspended" =>
        /\ yielded[rows_done].code = PASSED =>
              /\ yielded[rows_done].id.t = "id"
              /\ yielded[rows_done].id.wsi
                    = yielded[rows_done].wigos_station_identifier.parts
              /\ yielded[rows_done].id.isodate
                    = [i \in 1..6 |-> IF i = 6 THEN 0
                                      ELSE StoredTypical[i].num]
        /\ (rows_done \in parsed /\ parse_exc[rows_done] = "none"
            /\ \E i \in 1..5 : IsNone(StoredTypical[i])) =>
              /\ yielded[rows_done].code = FAILED
              /\ yielded[rows_done].bufr4 = None

\* the template does not set typicalMinute: the codec has encoded the
\* message of the row, and the row has failed
C18_Witness ==
    /\ pc = "suspended" /\ rows_done = 1
    /\ 1 \in parsed /\ parse_exc[1] = "none"
    /\ last_codec = "ok"
    /\ message.bufr # None
    /\ IsNone(StoredTypical[5])
    /\ StoredTypical[4] = PyInt(5)
    /\ yielded[1].code = FAILED
    /\ yielded[1].bufr4 = None

\* ------------------------------------------------------------------------
\* Rows of one transform do not influence each other (Spec)
\* ------------------------------------------------------------------------
\* the row that was processed last, processed as the only row: by a message
\* that was just constructed, with the same outcome of the codec
RowAlone ==
    ProcessRow(NewMessage, lines, mappings.number_header_rows + rows_done,
               mappings, NULLIFY_INVALID, SetKey(EmptyDict, job_id, <<>>),
               job_id, job_id,
               IF last_codec = "none" THEN "ok" ELSE last_codec)

\* C13: what a row leaves in the registry, and with it the bytes and the
\* checksum of its result, depends on the row and the template only: they
\* are what the row gives when no row was processed before it
C13_RowIndependentOfEarlierRows ==
    pc = "suspended" =>
        /\ message.dict = RowAlone.msg.dict
        /\ yielded[rows_done].bufr4 = RowAlone.result.bufr4
        /\ yielded[rows_done].md5 = RowAlone.result.md5

\* ------------------------------------------------------------------------
\* The checksum of the message (Spec)
\* ------------------------------------------------------------------------
\* C14: md5() of the message is the MD5 digest of the bytes the message has
\* cached, and None whenever it has none (after a reset, until as_bufr
\* produces bytes again)
C14_Md5OfCachedBytes ==
    message # None =>
        md5(message) = IF message.bufr = None THEN None
                       ELSE md5hex(message.bufr)

\* ------------------------------------------------------------------------
\* Warnings of two invocations side by side (SpecTwo)
\* ------------------------------------------------------------------------
\* the warnings of the result generator g yielded last, had that row been
\* processed with no other invocation around
WarningsAlone(g) ==
    ProcessRow(NewMessage, g.lines,
               mappings.number_header_rows + g.rows_done, mappings,
               NULLIFY_INVALID, SetKey(EmptyDict, g.job_id, <<>>), g.job_id,
               g.thread, "ok").result.warnings

\* the warning was handed out in a result of a generator with this job_id
Emitted(w, job) ==
    \E i \in 1..2 :
        /\ gens[i].job_id = job
        /\ \E k \in 1..Len(gens[i].yielded) :
              w \in Members(gens[i].yielded[k].warnings)

\* C15: however the pulls of two generators alternate, on one thread or on
\* two, the warnings of a result are those its invocation produced for that
\* row, and _warnings_global never holds a warning that was not handed out
\* in a result, so no clear of either invocation removes one
C15_WarningsOfOwnRowOnly ==
    /\ \A i \in 1..Len(gens) :
          gens[i].pc = "suspended" =>
              gens[i].yielded[gens[i].rows_done].warnings
                  = WarningsAlone(gens[i])
    /\ gens # <<>> =>
          \A job \in DOMAIN warnings_global :
              \A k \in 1..Len(warnings_global[job]) :
                  Emitted(warnings_global[job][k], job)

\* both generators on one thread, pulled first, second, first: the first
\* rows of both gave warnings, the second row of the first gave none
C15_Witness ==
    /\ gens # <<>>
    /\ gens[1].thread = gens[2].thread
    /\ gens[1].rows_done = 2 /\ gens[1].other_done = 1
    /\ gens[2].rows_done = 1 /\ gens[2].other_done = 1
    /\ gens[1].pc = "suspended" /\ gens[2].pc = "suspended"
    /\ gens[1].yielded[1].warnings # <<>>
    /\ gens[2].yielded[1].warnings # <<>>
    /\ gens[1].yielded[2].warnings = <<>>

\* ------------------------------------------------------------------------
\* Properties of the calls on one message (SpecMessage)
\* ------------------------------------------------------------------------
\* C16: writing back to a registered key what get_element gives for it
\* changes nothing: the value and the native type of the key, and every
\* other entry of the registry, are what they were
C16_SetGetChangesNothing ==
    (call.fn = "set_get" /\ call.args[1] \in DOMAIN call.before.dict) =>
        message.dict = call.before.dict

\* C19: once as_bufr has returned bytes they are cached, and until reset()
\* a later as_bufr() that is not told otherwise returns the cached bytes;
\* the bytes as_bufr returns are those of the values stored when it is
\* called
C19_CachedUntilReset ==
    (call.fn = "as_bufr" /\ result.exc = "none") =>
        /\ (call.before.bufr # None /\ ~call.args[1]) =>
              result.val = call.before.bufr
        /\ result.val # None => result.val = Encode(message)


\* ------------------------------------------------------------------------
\* C21: the dictionary that transform of the first module returns holds one
\* item per data row of the input: the number of its items equals the number
\* of data rows.
\* ------------------------------------------------------------------------
C21_OneItemPerRow ==
    (call.fn = "transform" /\ result.exc = "none")
        => Cardinality(DOMAIN result.val) = Len(call.data) - 1


\* ------------------------------------------------------------------------
\* C22: in every result transform yields, PASSED goes with bytes and with
\* the MD5 digest of exactly those bytes, and FAILED goes with no bytes, no
\* digest and at least one error; a row whose pack step failed is therefore
\* not PASSED.
\* ------------------------------------------------------------------------
C22_StatusMatchesPayload ==
    \A i \in 1..Len(yielded) :
        /\ yielded[i].code = PASSED
              => /\ ~IsNone(yielded[i].bufr4)
                 /\ yielded[i].md5 = md5hex(yielded[i].bufr4)
        /\ yielded[i].code = FAILED
              => /\ IsNone(yielded[i].bufr4)
                 /\ IsNone(yielded[i].md5)
                 /\ yielded[i].errors # <<>>


\* ------------------------------------------------------------------------
\* The registry of a message over the rows of a transform (Spec)
\* ------------------------------------------------------------------------
\* the registered keys with the type and the attributes recorded for each
Registered(msg) ==
    [k \in DOMAIN msg.dict |->
        [a \in DOMAIN msg.dict[k] \ {"value"} |-> msg.dict[k][a]]]

Converted(type, value) ==
    IF type = PyStr("int") /\ value.t # "int"
    THEN IF value.t = "float"
         THEN IF IsInf(value) THEN [ok |-> FALSE, val |-> None]
              ELSE [ok |-> TRUE, val |-> PyInt(Round(value.num, value.den))]
         ELSE IF value.t = "str" /\ IsNumericLiteral(value.s)
         THEN [ok |-> TRUE,
               val |-> PyInt(Trunc(LiteralOf(value.s)[2],
                                   LiteralOf(value.s)[3]))]
         ELSE [ok |-> FALSE, val |-> None]
    ELSE IF type = PyStr("float") /\ value.t # "float"
    THEN IF value.t = "int" THEN [ok |-> TRUE, val |-> PyFloat(value.num, 1)]
         ELSE IF value.t = "str" /\ IsNumericLiteral(value.s)
         THEN [ok |-> TRUE,
               val |-> PyFloat(LiteralOf(value.s)[2], LiteralOf(value.s)[3])]
         ELSE [ok |-> FALSE, val |-> None]
    ELSE [ok |-> TRUE, val |-> value]

\* C24: set_element(key, value) with a value that is neither None nor a list
\* stores the value converted to the native type of the key: a float rounded
\* to the nearest integer and anything else parsed as an integer for an int
\* key, a non-float parsed as a float for a float key, the value itself
\* otherwise.  When the conversion fails the lenient policy stores None and
\* records a warning, and the strict policy raises and leaves the stored
\* value as it was
C24_CoercesOrNullifies ==
    (call.fn = "set_element" /\ call.args[1] \in DOMAIN call.before.dict
     /\ ~IsNone(call.args[2]) /\ call.args[2].t # "list")
    => LET key == call.args[1]
           c == Converted(call.before.dict[key].type, call.args[2])
       IN  IF c.ok
           THEN /\ result.exc = "none"
                /\ message = SetValue(call.before, key, c.val)
           ELSE IF NULLIFY_INVALID
           THEN /\ result.exc = "none"
                /\ message.dict = SetValue(call.before, key, None).dict
                /\ Len(message.warnings) = Len(call.before.warnings) + 1
           ELSE /\ result.exc # "none"
                /\ message = call.before


\* ------------------------------------------------------------------------
\* get_element for attributes and for keys that are not registered
\* (SpecMessage)
\* ------------------------------------------------------------------------
\* the key before "->" in the key of the get_element call made last
BaseKey == ArrowTokens(call.args[1])[1]

\* the call asked for an attribute that is stored for a registered key
AsksStoredAttribute ==
    /\ HasArrow(call.args[1])
    /\ BaseKey \in DOMAIN call.before.dict
    /\ ArrowTokens(call.args[1])[2] \in Members(ATTRIBUTES)
    /\ ArrowTokens(call.args[1])[2] \in DOMAIN call.before.dict[BaseKey]

\* C25 as stated: get_element('key->attribute') returns the stored attribute
\* of key, and get_element on a base key that was never registered fails
\* with an error instead of returning a value.
C25_AttributeOrError ==
    call.fn = "get_element" =>
        /\ AsksStoredAttribute =>
              /\ result.exc = "none"
              /\ result.val
                    = call.before.dict[BaseKey][ArrowTokens(call.args[1])[2]]
        /\ BaseKey \notin DOMAIN call.before.dict => result.exc # "none"

\* C25 as amended: get_element('key->attribute') returns the attribute stored
\* for a registered key and changes nothing.  For a base key that was never
\* registered, and for an attribute of a header key, which has none stored,
\* the strict policy raises RuntimeError and the lenient policy returns None
\* and appends a warning to message.warnings; the registry is left as it was.
C25_AttributeOrPolicy ==
    call.fn = "get_element" =>
        /\ AsksStoredAttribute =>
              /\ result.exc = "none"
              /\ result.val
                    = call.before.dict[BaseKey][ArrowTokens(call.args[1])[2]]
              /\ message = call.before
        /\ (BaseKey \notin DOMAIN call.before.dict
            \/ (HasArrow(call.args[1]) /\ BaseKey \in HEADERS)) =>
              /\ message.dict = call.before.dict
              /\ IF NULLIFY_INVALID
                 THEN /\ result.exc = "none"
                      /\ IsNone(result.val)
                      /\ Len(message.warnings)
                            = Len(call.before.warnings) + 1
                 ELSE /\ result.exc = "RuntimeError"
                      /\ message = call.before

\* lenient: the units of a key that holds a value were read, and a key that
\* is not registered was read before
C25_Witness ==
    /\ NULLIFY_INVALID
    /\ call.fn = "get_element"
    /\ call.args = <<"#1#airTemperature->units">>
    /\ result.val = PyStr("K")
    /\ ~IsNone(message.dict["#1#airTemperature"].value)
    /\ <<"get_element", "#9#airTemperature">> \in Members(message.warnings)


\* ------------------------------------------------------------------------
\* as_bufr and the handles of the codec (SpecMessage)
\* ------------------------------------------------------------------------
\* the as_bufr call made last went past the cache and its pack step failed
\* with CodesInternalError
PackFailedInternally ==
    /\ call.fn = "as_bufr"
    /\ call.args[2] = "pack_internal_error"
    /\ ~(call.args[1] /\ ~IsNone(call.before.bufr))

\* C26: when the pack step fails with CodesInternalError as_bufr does not
\* raise: it appends a warning to the warnings of the message and keeps the
\* earlier ones, releases the handle it obtained, leaves every stored value
\* as it was and returns the bytes cached before (None after a reset)
C26_PackFailureReturnsCached ==
    PackFailedInternally =>
        /\ result.exc = "none"
        /\ Len(message.warnings) = Len(call.before.warnings) + 1
        /\ SubSeq(message.warnings, 1, Len(call.before.warnings))
              = call.before.warnings
        /\ result.obtained = 1 /\ result.released = 1
        /\ message.dict = call.before.dict
        /\ result.val = call.before.bufr
        /\ message.bufr = call.before.bufr
        /\ (call.before = reset(call.before) => IsNone(result.val))

\* the message held a warning, a value and cached bytes when the pack step
\* failed
C26_Witness ==
    /\ PackFailedInternally
    /\ call.before.warnings # <<>>
    /\ ~IsNone(call.before.bufr)
    /\ result.val = call.before.bufr

\* C28: every handle as_bufr obtains from the codec is released exactly once
\* before the method returns or raises, whichever codec call fails, so that
\* after any sequence of calls no handle is left unreleased
C28_HandlesReleased ==
    /\ call.fn = "as_bufr" => result.released = result.obtained
    /\ call.fn # "BUFRMessage" => call.open = 0


\* ------------------------------------------------------------------------
\* Two field specs of one eccodes_key in a section (SpecCalls)
\* ------------------------------------------------------------------------
\* parse of the second field spec alone, for the row of the call made last
SecondAlone ==
    parse(reset(NewMessage),
          Data([c \in {"x", "y"} |-> IF c = "x" THEN call.x ELSE call.y]),
          [header |-> <<>>, data |-> <<call.second>>],
          NULLIFY_INVALID, SetKey(EmptyDict, Thread, <<>>), Thread)

\* C27: parse resolves each field spec of a section from its own value
\* expression, also when two field specs carry the same eccodes_key: after
\* the section the registry holds for the key what the last spec for it
\* gives, its own value validated and scaled by its own bounds and scaling
C27_EachSpecOwnValue ==
    (call.fn = "parse_same_key" /\ result.exc = "none"
     /\ SecondAlone.exc = "none")
    => message.dict[call.key].value = SecondAlone.msg.dict[call.key].value


\* ------------------------------------------------------------------------
\* Reading back what set_element stored (SpecMessage)
\* ------------------------------------------------------------------------
\* C29: for every registered key, also one whose name contains "->", after
\* set_element has stored a value for the key get_element of the key
\* returns that stored value
C29_GetReturnsStored ==
    (call.fn = "set_element" /\ call.args[1] \in DOMAIN call.before.dict
     /\ result.exc = "none")
    => /\ get_element(message, call.args[1], NULLIFY_INVALID).exc = "none"
       /\ get_element(message, call.args[1], NULLIFY_INVALID).val
             = message.dict[call.args[1]].value


\* ------------------------------------------------------------------------
\* The centre and the subcentre in a loaded template (SpecCalls)
\* ------------------------------------------------------------------------
\* the header of the template file the load_template call made last names
HeaderOnFile ==
    (CHOOSE f \in TemplateFiles :
        call.template_name \in {f.id, f.name}).header

\* the entries of header h for keys other than the centre and the subcentre
OtherEntries(h) ==
    LET Other(e) == e.eccodes_key
                       \notin {"bufrHeaderCentre", "bufrHeaderSubCentre"}
    IN  SelectSeq(h, Other)

\* C30: load_template of a known template returns it with the centre and
\* the subcentre updated: whether or not the header on file has entries for
\* bufrHeaderCentre and bufrHeaderSubCentre, the header returned has exactly
\* one entry for each, with the values const:<ORIGINATING_CENTRE> and
\* const:<ORIGINATING_SUBCENTRE>, and its other entries are those on file
C30_CentreUpdated ==
    (call.fn = "load_template" /\ call.template_name # "unknown")
    => /\ result.exc = "none"
       /\ \A key \in {"bufrHeaderCentre", "bufrHeaderSubCentre"} :
             \E i \in 1..Len(result.val.header) :
                /\ result.val.header[i]
                      = FieldSpec(key,
                                  <<"const",
                                    IF key = "bufrHeaderCentre"
                                    THEN call.centre ELSE call.subcentre>>)
                /\ \A j \in 1..Len(result.val.header) :
                      result.val.header[j].eccodes_key = key => j = i
       /\ OtherEntries(result.val.header) = OtherEntries(HeaderOnFile)

====
